---- MODULE Spec2Model ----
(***************************************************************************)
(* A model of the outbound request core of gemini_file_search:             *)
(*   - app/services/retry.py: create_retry_decorator, the tenacity policy  *)
(*     (stop_after_attempt, wait_exponential, retry_if_exception_type,     *)
(*     before_sleep=log_retry_attempt, reraise=True);                      *)
(*   - app/services/file_search.py: FileSearchService, whose methods wrap  *)
(*     one HTTP call in that policy and convert what it raises;            *)
(*   - app/routers/*.py: the route handlers that call one facade method    *)
(*     and map FileSearchAPIError to an HTTP status;                       *)
(*   - the upload route of app/routers/media.py with the resumable upload  *)
(*     and the import it is followed by, for one request and for two       *)
(*     requests served together.                                           *)
(*                                                                         *)
(* Time is counted in centiseconds (1 second = 100), so that the 0.01 and  *)
(* 0.1 second waits of the tests and the test settings stay integers.      *)
(***************************************************************************)
EXTENDS Integers, Sequences, FiniteSets, TLC

VARIABLES
    cfg,            \* the retry decorator's arguments: max_attempts, min_wait, max_wait, exceptions
    fn,             \* the function the decorator wraps
    pc,             \* where the call is: ready, attempt, sleep, returned, raised, ...
    attempt_number, \* tenacity's retry_state.attempt_number
    outcome,        \* tenacity's retry_state.outcome (of the attempt that just ended)
    calls,          \* the outcome of every invocation of the wrapped function, in order
    got,            \* what each invocation met: the HTTP call's response or failure
    events,         \* what log_retry_attempt logged, in order
    sleeps,         \* the delays slept between attempts, in order
    final,          \* how the wrapped call ended: <<>> while it runs, then <<the value
                    \* returned or the exception raised>>
    settings,       \* the Settings the service is built from (read-only)
    call,           \* the facade operation the route handler calls
    sent,           \* every HTTP request issued upstream, in order
    result,         \* how the facade method ended: <<>>, then <<value or exception>>
    reply,          \* the route's HTTP response: <<>>, then <<status code>>
    task,           \* the upload requests being served: for each, where its handler is
                    \* and what it holds (empty when no upload is made)
    disk,           \* the files under /tmp/uploads: path -> content
    flow            \* the responses a client got to the requests it made one after
                    \* the other (tests/e2e/test_flow.py); empty for a single request

retryVars == <<cfg, fn, pc, attempt_number, outcome, calls, got, events, sleeps, final>>
svcVars == <<settings, call, sent, result, reply>>
uploadVars == <<task, disk>>
vars == <<retryVars, svcVars, uploadVars, flow>>

-----------------------------------------------------------------------------
(* Bounds of the model *)

MaxAttemptsBound == 3

-----------------------------------------------------------------------------
(* Exceptions and outcomes *)

\* The classes an exception of each kind is an instance of (Python's and httpx's
\* class hierarchy, as isinstance sees it).
Ancestors(kind) ==
    CASE kind = "ValueError"       -> {"ValueError", "Exception"}
      [] kind = "TypeError"        -> {"TypeError", "Exception"}
      [] kind = "JSONDecodeError"  -> {"JSONDecodeError", "ValueError", "Exception"}
      [] kind = "HTTPStatusError"  -> {"HTTPStatusError", "HTTPError", "Exception"}
      [] kind = "ReadTimeout"      -> {"ReadTimeout", "TimeoutException", "TransportError",
                                       "RequestError", "HTTPError", "Exception"}
      [] kind = "ConnectError"     -> {"ConnectError", "NetworkError", "TransportError",
                                       "RequestError", "HTTPError", "Exception"}
      [] kind = "FileSearchAPIError" -> {"FileSearchAPIError", "Exception"}
      [] kind = "RetryError"       -> {"RetryError", "Exception"}
      [] OTHER                     -> {kind, "Exception"}

IsInstance(exc, types) == \E t \in types : t \in Ancestors(exc.kind)

\* An exception: its class, its message (str(e), as the sequence of its words), and
\* for httpx.HTTPStatusError the response it carries (<<>> otherwise).
Exc(kind, msg) == [kind |-> kind, msg |-> msg, response |-> <<>>]

\* A finished attempt (tenacity's Future): a value or an exception.
Returned(v) == [failed |-> FALSE, value |-> <<v>>, exc |-> <<>>]
Threw(e)    == [failed |-> TRUE,  value |-> <<>>,  exc |-> <<e>>]

-----------------------------------------------------------------------------
(* app/services/retry.py *)

RECURSIVE Pow2(_)
Pow2(n) == IF n <= 0 THEN 1 ELSE 2 * Pow2(n - 1)

Min(a, b) == IF a <= b THEN a ELSE b
Max(a, b) == IF a >= b THEN a ELSE b

\* multiplier=1 (second) of wait_exponential, in centiseconds
Multiplier == 100

\* tenacity.wait_exponential(multiplier=1, min=min_wait, max=max_wait) after the
\* attempt numbered attempt: max(max(0, min), min(multiplier * 2^(attempt-1), max))
wait_exponential_minscaled(min_wait, max_wait, attempt) ==
    Min(max_wait, min_wait * Pow2(attempt - 1))
wait_exponential(min_wait, max_wait, attempt) ==
    Max(Max(0, min_wait), Min(Multiplier * Pow2(attempt - 1), max_wait))

\* tenacity.stop_after_attempt(max_attempts)
stop_after_attempt_late(max_attempts, attempt) == attempt > max_attempts
stop_after_attempt(max_attempts, attempt) == attempt >= max_attempts

\* tenacity.retry_if_exception_type(exceptions): retry iff the attempt raised an
\* instance of one of the types
retry_if_any_exception(exceptions, o) == o.failed
retry_if_not_client_error(exceptions, o) ==
    /\ o.failed
    /\ IsInstance(o.exc[1], exceptions)
    /\ (o.exc[1].response # <<>> => o.exc[1].response[1].status_code >= 500)
retry_if_exception_type(exceptions, o) ==
    o.failed /\ IsInstance(o.exc[1], exceptions)

\* log_retry_attempt(retry_state): one warning naming the function, the attempt
\* number and the exception of the attempt's outcome ('unknown error' when the
\* state has no outcome, None when the outcome is a value)
log_retry_attempt(f, attempt, o) ==
    [fn |-> f, attempt |-> attempt,
     cause |-> IF o = <<>> THEN Exc("none", <<"unknown", "error">>)
               ELSE IF o[1].failed THEN o[1].exc[1]
               ELSE Exc("none", <<"None">>)]

\* The tenacity hook log_retry_attempt is registered under: before_sleep= runs
\* it after a failed attempt that will be retried, before the sleep (before=
\* would run it before every attempt, after= after every failed retryable one).
log_hook_before == "before"
log_hook_after == "after"
log_hook == "before_sleep"

\* What leaves the wrapped call once the attempts are used up. reraise=True:
\* RetryError.reraise() raises the last attempt's own exception; without it
\* tenacity raises RetryError from it.
RaiseRetryError(o) == Threw(Exc("RetryError", <<"RetryError">>))
Reraise(o) == o

-----------------------------------------------------------------------------
(* Upstream: what one HTTP call can meet *)

\* An optional JSON member is <<>> when the key is absent and <<v>> when present.
Has(member) == member # <<>>

\* A response body: its raw text (the sequence of its words; <<>> is no content)
\* and, when the text is JSON, the value it decodes to (<<>> when it is not).
Body(text, json) == [text |-> text, json |-> json]
EmptyBody == Body(<<>>, <<>>)
GarbageBody == Body(<<"<html>">>, <<>>)

\* What one HTTP call ends with: a response, or a transport failure raised by httpx
Resp(status, body) == [type |-> "response", status_code |-> status, body |-> body]
TimedOut == [type |-> "timeout", status_code |-> 0, body |-> EmptyBody]
ConnectFailed == [type |-> "connect_error", status_code |-> 0, body |-> EmptyBody]

\* The JSON objects of the resources: every member optional
ResourceJson(name, times, state, size, done) ==
    [name |-> name, createTime |-> times, updateTime |-> times, state |-> state,
     sizeBytes |-> size, done |-> done,
     fileSearchStores |-> <<>>, documents |-> <<>>, models |-> <<>>]
EmptyJson == ResourceJson(<<>>, <<>>, <<>>, <<>>, <<>>)

ModelJson(name, methods) == [name |-> name, supportedGenerationMethods |-> methods]
ModelsJson ==
    [EmptyJson EXCEPT !.models =
        << << ModelJson(<<"models/", "gemini-2.5-flash">>, {"generateContent", "countTokens"}),
              ModelJson(<<"models/", "embedding-001">>, {"embedContent"}) >> >>]

\* The JSON object of a generateContent response
SearchJson(isdict, error, feedback, candidates) ==
    [isdict |-> isdict, error |-> error, promptFeedback |-> feedback,
     candidates |-> candidates]
Part(text) == [text |-> text]
Chunk(ctx) == [retrievedContext |-> ctx]
Candidate(content, grounding) == [content |-> content, groundingMetadata |-> grounding]
\* Candidates of a response: one with three parts (the second without text) and
\* four grounding chunks (two sharing a URI, one with a title only, one with no
\* retrieved context), another with its own text and chunk, and candidates with
\* no content, with content without parts, and with an empty text
FullCandidate ==
    Candidate(<< [parts |-> << << Part(<< <<"Paris">> >>), Part(<<>>),
                                 Part(<< <<"France">> >>) >> >>] >>,
              << [groundingChunks |->
                    << << Chunk(<< [uri |-> <<"doc1">>, title |-> <<"t1">>] >>),
                          Chunk(<< [uri |-> <<>>, title |-> <<"t2">>] >>),
                          Chunk(<< [uri |-> <<"doc1">>, title |-> <<>>] >>),
                          Chunk(<<>>) >> >>] >>)
OtherCandidate ==
    Candidate(<< [parts |-> << << Part(<< <<"Berlin">> >>) >> >>] >>,
              << [groundingChunks |->
                    << << Chunk(<< [uri |-> <<"doc9">>, title |-> <<>>] >>) >> >>] >>)
EmptyTextCandidate ==
    Candidate(<< [parts |-> << << Part(<< <<>> >>) >> >>] >>,
              << [groundingChunks |->
                    << << Chunk(<< [uri |-> <<>>, title |-> <<"t2">>] >>),
                          Chunk(<< [uri |-> <<>>, title |-> <<>>] >>) >> >>] >>)
AnsweredJson == SearchJson(TRUE, <<>>, <<>>, << <<FullCandidate>> >>)
ErrorJson == SearchJson(TRUE, << [message |-> << <<"boom">> >>] >>, <<>>, <<>>)
BlockedJson == SearchJson(TRUE, <<>>, << [blockReason |-> <<"SAFETY">>] >>, <<>>)
NoCandidatesJson == SearchJson(TRUE, <<>>, <<>>, << <<>> >>)
UnblockedJson == SearchJson(TRUE, <<>>, << [blockReason |-> <<>>] >>, <<>>)
ArrayJson == SearchJson(FALSE, <<>>, <<>>, <<>>)

\* The generateContent responses upstream may give: every combination of an
\* error member, a prompt feedback and a list of candidates (among them a
\* candidate with no content and one whose content has no parts), and a JSON array
SearchResponses ==
    LET errors == { <<>>, << [message |-> << <<"boom">> >>] >>, << [message |-> <<>>] >>,
                    << [message |-> << <<"Rate", "Limit", "hit">> >>] >> }
        feedbacks == { <<>>, << [blockReason |-> <<>>] >>,
                       << [blockReason |-> <<"SAFETY">>] >>,
                       << [blockReason |-> <<"Quota">>] >> }
        candidates ==
            { <<>>, << <<>> >>, << <<FullCandidate>> >>,
              << <<FullCandidate, OtherCandidate>> >>,
              << <<OtherCandidate, FullCandidate>> >>,
              << <<Candidate(<<>>, <<>>)>> >>,
              << <<Candidate(<< [parts |-> <<>>] >>, << [groundingChunks |-> <<>>] >>),
                   FullCandidate>> >>,
              << <<EmptyTextCandidate>> >> }
    IN { SearchJson(TRUE, e, f, c) : e \in errors, f \in feedbacks, c \in candidates }
           \cup {ArrayJson}

\* The facade operations that make one retried HTTP call (the upload, which
\* makes three, has actions of its own)
RequestOps ==
    {"create_store", "list_stores", "get_store", "delete_store", "list_documents",
     "get_document", "delete_document", "import_file", "get_operation"}
Ops == RequestOps \cup {"list_models", "search_with_gemini"}

\* The successful bodies upstream may answer an operation with
OkBodies(op) ==
    CASE op \in {"create_store", "get_store"} ->
            { Body(<<"{store}">>, << ResourceJson(<< <<"fileSearchStores/", "s1">> >>,
                                                  <<"2025-01-01">>, <<>>, <<>>, <<>>) >>) }
      [] op = "get_document" ->
            { Body(<<"{document}">>,
                   << ResourceJson(<< <<"fileSearchStores/", "s1", "/documents/", "d1">> >>,
                                   <<"2025-01-01">>, <<"STATE_PENDING">>, <<12>>, <<>>) >>) }
      [] op \in {"import_file", "get_operation"} ->
            { Body(<<"{operation}">>,
                   << ResourceJson(<< <<"fileSearchStores/", "s1", "/operations/", "o1">> >>,
                                   <<>>, <<>>, <<>>, <<>>) >>),
              Body(<<"{operation,done}">>,
                   << ResourceJson(<< <<"fileSearchStores/", "s1", "/operations/", "o1">> >>,
                                   <<>>, <<>>, <<>>, <<TRUE>>) >>),
              Body(<<"{operation,not done}">>,
                   << ResourceJson(<< <<"fileSearchStores/", "s1", "/operations/", "o1">> >>,
                                   <<>>, <<>>, <<>>, <<FALSE>>) >>) }
      [] op = "list_documents" ->
            { Body(<<"{documents}">>,
                   << [EmptyJson EXCEPT !.documents =
                         << << ResourceJson(<< <<"fileSearchStores/", "s1", "/documents/", "d1">> >>,
                                            <<"2025-01-01">>, <<state>>, <<12>>, <<>>) >> >>] >>) :
                state \in {"STATE_PENDING", "STATE_ACTIVE"} }
      [] op = "list_models" -> { Body(<<"{models}">>, <<ModelsJson>>) }
      [] op = "search_with_gemini" ->
            { Body(<<"{...}">>, <<r>>) : r \in SearchResponses }
      [] OTHER -> {}

EmptyJsonBody(op) ==
    Body(<<"{}">>, IF op = "search_with_gemini"
                     THEN << SearchJson(TRUE, <<>>, <<>>, <<>>) >>
                     ELSE <<EmptyJson>>)

\* The failure responses upstream may answer with
ErrorResponses ==
    { Resp(302, Body(<<"Moved">>, <<>>)),
      Resp(404, Body(<<"Not", "found">>, <<>>)),
      Resp(429, Body(<<"Resource", "exhausted">>, <<>>)),
      Resp(500, Body(<<"Quota", "exceeded">>, <<>>)) }

TransportResults(op) ==
    { Resp(200, b) : b \in OkBodies(op) \cup {EmptyJsonBody(op), EmptyBody, GarbageBody} }
        \cup ErrorResponses \cup {TimedOut, ConnectFailed}

-----------------------------------------------------------------------------
(* app/services/file_search.py *)

\* Settings.api_timeout (seconds) and the max_wait=10.0 of the service's decorator
DefaultTimeout == 60
ServiceMaxWait == 1000

FileSearchAPIError(msg) == Exc("FileSearchAPIError", msg)

\* FileSearchService.__init__: the retry decorator every call of the service uses
ServiceRetryExceptions_any == {"Exception"}
ServiceRetryExceptions_transport == {"HTTPStatusError", "TransportError"}
ServiceRetryExceptions_api_error ==
    {"HTTPStatusError", "TimeoutException", "FileSearchAPIError"}
ServiceRetryExceptions == {"HTTPStatusError", "TimeoutException"}

retry_decorator(s) ==
    [max_attempts |-> s.api_max_retries, min_wait |-> s.api_retry_delay,
     max_wait |-> ServiceMaxWait, exceptions |-> ServiceRetryExceptions]

get_headers_nokey(s) == { <<"Content-Type", "application/json">> }
get_headers(s) ==
    { <<"Content-Type", "application/json">>, <<"X-Goog-Api-Key", s.google_api_key>> }

\* The arguments the route handlers pass
StoreName == <<"fileSearchStores/", "s1">>
DocumentName == StoreName \o <<"/documents/", "d1">>
OperationName == StoreName \o <<"/operations/", "o1">>

\* One call of a facade method: the operation, the page size asked for (list
\* operations), the file to import (import_file), and who calls: a route handler
\* of app/routers, or a caller of FileSearchService itself.
DefaultPageSize == 10
MaxPageSize == 20
Call(op, page_size, entry) ==
    [op |-> op, page_size |-> page_size, store_name |-> StoreName,
     file_name |-> <<"files/", "f1">>, chunking_config |-> <<>>, force |-> FALSE,
     entry |-> entry]

\* ChunkingConfig of app/models/schemas.py, and a call or upload given one
\* (<<>> is None)
ChunkingConfig(max_tokens_per_chunk, max_overlap_tokens) ==
    [maxTokensPerChunk |-> max_tokens_per_chunk, maxOverlapTokens |-> max_overlap_tokens]
WithChunking(c, chunking_config) == [c EXCEPT !.chunking_config = chunking_config]

\* delete_store, delete_document: params["force"] = "true" if force
WithForce(c, force) == [c EXCEPT !.force = force]
delete_params_dropped(force) == {}
delete_params(force) == IF force THEN {<<"force", "true">>} ELSE {}

\* import_file: body = {"fileName": file_name}; the chunking configuration is not
\* put into it
import_body_with_chunking(file_name, chunking_config) ==
    {<<"fileName", file_name>>}
        \cup IF Has(chunking_config) THEN {<<"chunkingConfig", chunking_config[1]>>} ELSE {}
import_body(file_name, chunking_config) == {<<"fileName", file_name>>}

\* list_stores, list_documents: min(page_size, 20)
clamp_page_size_none(page_size) == page_size
clamp_page_size(page_size) == Min(page_size, MaxPageSize)

\* method, path, JSON body and query parameters each facade method gives _request
RequestArgs(c) ==
    LET op == c.op IN
    CASE op = "create_store" ->
            [method |-> "POST", path |-> <<"/v1beta/fileSearchStores">>,
             json |-> {<<"displayName", "T">>}, params |-> {}]
      [] op = "list_stores" ->
            [method |-> "GET", path |-> <<"/v1beta/fileSearchStores">>,
             json |-> {}, params |-> {<<"pageSize", clamp_page_size(c.page_size)>>}]
      [] op = "get_store" ->
            [method |-> "GET", path |-> <<"/v1beta/">> \o c.store_name,
             json |-> {}, params |-> {}]
      [] op = "delete_store" ->
            [method |-> "DELETE", path |-> <<"/v1beta/">> \o c.store_name,
             json |-> {}, params |-> delete_params(c.force)]
      [] op = "list_documents" ->
            [method |-> "GET", path |-> <<"/v1beta/">> \o c.store_name \o <<"/documents">>,
             json |-> {}, params |-> {<<"pageSize", clamp_page_size(c.page_size)>>}]
      [] op = "get_document" ->
            [method |-> "GET", path |-> <<"/v1beta/">> \o DocumentName,
             json |-> {}, params |-> {}]
      [] op = "delete_document" ->
            [method |-> "DELETE", path |-> <<"/v1beta/">> \o DocumentName,
             json |-> {}, params |-> delete_params(c.force)]
      [] op = "import_file" ->
            [method |-> "POST", path |-> <<"/v1beta/">> \o c.store_name \o <<":importFile">>,
             json |-> import_body(c.file_name, c.chunking_config), params |-> {}]
      [] op = "get_operation" ->
            [method |-> "GET", path |-> <<"/v1beta/">> \o OperationName,
             json |-> {}, params |-> {}]

\* The function each facade method wraps in the retry decorator
WrappedBy_import_apart(op) ==
    CASE op = "list_models" -> "fetch_models"
      [] op \in {"search_with_gemini", "import_file"} -> "generate_content"
      [] OTHER -> "make_request"
WrappedBy(op) ==
    CASE op = "list_models" -> "fetch_models"
      [] op = "search_with_gemini" -> "generate_content"
      [] OTHER -> "make_request"

\* The HTTP request one attempt of the wrapped function issues; via is the method
\* of the service whose code makes the httpx call, content the bytes given as
\* content= (none in these calls).
HttpRequest(f, c, s) ==
    CASE f = "fetch_models" ->
            [via |-> "list_models", method |-> "GET",
             url |-> <<s.api_base_url, "/v1beta/models">>,
             headers |-> {}, params |-> {<<"key", s.google_api_key>>}, json |-> {},
             timeout |-> s.api_timeout, content |-> <<>>]
      [] f = "generate_content" ->
            [via |-> "search_with_gemini", method |-> "POST",
             url |-> <<s.api_base_url, "/v1beta/models/", "gemini-2.5-flash",
                       ":generateContent">>,
             headers |-> { <<"Content-Type", "application/json">>,
                           <<"X-Goog-Api-Key", s.google_api_key>> },
             params |-> {},
             json |-> {<<"contents", "q">>, <<"file_search_store_names", "fileSearchStores/s1">>},
             timeout |-> s.api_timeout * 2, content |-> <<>>]
      [] OTHER ->
            [via |-> "_request", method |-> RequestArgs(c).method,
             url |-> <<s.api_base_url>> \o RequestArgs(c).path,
             headers |-> get_headers(s), params |-> RequestArgs(c).params,
             json |-> RequestArgs(c).json, timeout |-> s.api_timeout, content |-> <<>>]

\* httpx: what awaiting the call raises on a transport failure
TransportError(t) ==
    IF t.type = "timeout" THEN Exc("ReadTimeout", <<"timed", "out">>)
    ELSE Exc("ConnectError", <<"All", "connection", "attempts", "failed">>)

\* httpx: response.raise_for_status() raises HTTPStatusError unless the status is 2xx
HTTPStatusError(t) ==
    [kind |-> "HTTPStatusError", msg |-> <<"status", ToString(t.status_code)>>,
     response |-> << [status_code |-> t.status_code, text |-> t.body.text] >>]
is_success(t) == t.status_code \in 200..299

\* httpx: response.json()
response_json(t) ==
    IF Has(t.body.json) THEN Returned(t.body.json[1])
    ELSE Threw(Exc("JSONDecodeError", <<"Expecting", "value">>))

\* make_request of _request: request, raise_for_status,
\* response.json() if response.content else {}
make_request_json_always(t) ==
    IF t.type # "response" THEN Threw(TransportError(t))
    ELSE IF ~is_success(t) THEN Threw(HTTPStatusError(t))
    ELSE response_json(t)
make_request(t) ==
    IF t.type # "response" THEN Threw(TransportError(t))
    ELSE IF ~is_success(t) THEN Threw(HTTPStatusError(t))
    ELSE IF t.body.text # <<>> THEN response_json(t)
    ELSE Returned(EmptyJson)

\* fetch_models of list_models and generate_content of search_with_gemini:
\* request, raise_for_status, response.json()
fetch_models(t) ==
    IF t.type # "response" THEN Threw(TransportError(t))
    ELSE IF ~is_success(t) THEN Threw(HTTPStatusError(t))
    ELSE response_json(t)

generate_content(t) == fetch_models(t)

\* The except clauses around the wrapped call: HTTPStatusError first, then
\* Exception; both raise FileSearchAPIError with a formatted message.
ExceptClauses_status_only(status_prefix, other_prefix, o) ==
    IF o.failed /\ IsInstance(o.exc[1], {"HTTPStatusError"})
      THEN Threw(FileSearchAPIError(
                status_prefix \o <<ToString(o.exc[1].response[1].status_code), "-">>
                              \o o.exc[1].response[1].text))
    ELSE o
ExceptAsRequestFailed(status_prefix, other_prefix, o) ==
    IF ~o.failed THEN o
    ELSE Threw(FileSearchAPIError(other_prefix \o o.exc[1].msg))
ExceptClauses(status_prefix, other_prefix, o) ==
    IF ~o.failed THEN o
    ELSE IF IsInstance(o.exc[1], {"HTTPStatusError"})
      THEN Threw(FileSearchAPIError(
                status_prefix \o <<ToString(o.exc[1].response[1].status_code), "-">>
                              \o o.exc[1].response[1].text))
    ELSE Threw(FileSearchAPIError(other_prefix \o o.exc[1].msg))

\* _request: the result of the retried make_request, or FileSearchAPIError
request(o) == ExceptClauses(<<"API", "error:">>, <<"Request", "failed:">>, o)

\* app/models/schemas.py: the pydantic models the facade builds from the response
\* (a missing required field raises ValidationError)
ValidationError == Exc("ValidationError", <<"Field", "required">>)

FileSearchStore(d) ==
    IF Has(d.name) /\ Has(d.createTime) /\ Has(d.updateTime)
      THEN Returned([type |-> "FileSearchStore", name |-> d.name[1]])
    ELSE Threw(ValidationError)

Document(d) ==
    IF Has(d.name) /\ Has(d.createTime) /\ Has(d.updateTime) /\ Has(d.state)
       /\ Has(d.sizeBytes)
      THEN Returned([type |-> "Document", name |-> d.name[1], state |-> d.state[1]])
    ELSE Threw(ValidationError)

Operation_done(d) ==
    IF Has(d.name)
      THEN Returned([type |-> "Operation", name |-> d.name[1], done |-> TRUE])
    ELSE Threw(ValidationError)
Operation(d) ==
    IF Has(d.name)
      THEN Returned([type |-> "Operation", name |-> d.name[1],
                     done |-> IF Has(d.done) THEN d.done[1] ELSE FALSE])
    ELSE Threw(ValidationError)

FileSearchStoreList(d) ==
    Returned([type |-> "FileSearchStoreList",
              file_search_stores |-> IF Has(d.fileSearchStores)
                                       THEN d.fileSearchStores[1] ELSE <<>>])

DocumentList(d) ==
    Returned([type |-> "DocumentList",
              documents |-> IF Has(d.documents) THEN d.documents[1] ELSE <<>>])

\* list_models: keep the models advertising generateContent, their name without
\* the "models/" prefix
available_models(d) ==
    LET models == IF Has(d.models) THEN d.models[1] ELSE <<>>
        kept == SelectSeq(models, LAMBDA m : "generateContent" \in m.supportedGenerationMethods)
    IN [i \in 1..Len(kept) |->
            [name |-> SelectSeq(kept[i].name, LAMBDA w : w # "models/"),
             supportedMethods |-> kept[i].supportedGenerationMethods]]

list_models(o) ==
    ExceptClauses(<<"Failed", "to", "list", "models:">>, <<"Failed", "to", "list", "models:">>,
                  IF o.failed THEN o ELSE Returned(available_models(o.value[1])))

search_with_gemini(o) ==
    ExceptClauses(<<"Search", "error:">>, <<"Search", "failed:">>, o)

\* The facade method op, given how its retried call ended
Facade(op, o) ==
    LET r == request(o)
        then(model(_)) == IF r.failed THEN r ELSE model(r.value[1])
    IN CASE op \in {"create_store", "get_store"} -> then(FileSearchStore)
         [] op = "list_stores" -> then(FileSearchStoreList)
         [] op = "list_documents" -> then(DocumentList)
         [] op = "get_document" -> then(Document)
         [] op \in {"import_file", "get_operation"} -> then(Operation)
         [] op \in {"delete_store", "delete_document"} -> r
         [] op = "list_models" -> list_models(o)
         [] op = "search_with_gemini" -> search_with_gemini(o)

-----------------------------------------------------------------------------
(* app/routers/*.py and the exception handler of app/main.py *)

Reply(status, detail, content) ==
    [status_code |-> status, detail |-> detail, content |-> content]

SuccessStatus(op) ==
    CASE op = "create_store" -> 201
      [] op \in {"delete_store", "delete_document"} -> 204
      [] op = "import_file" -> 202
      [] OTHER -> 200

\* The status of the HTTPException a route raises on FileSearchAPIError
ErrorStatus(op) ==
    IF op \in {"get_store", "get_document", "get_operation"} THEN 404 ELSE 500

\* FastAPI's validation of page_size: int = Query(default=10, ge=1, le=20), done
\* before the handler runs; a value outside the range is answered with 422
QueryValid_any(c) == TRUE
QueryValid(c) ==
    c.op \in {"list_stores", "list_documents"} => (c.page_size >= 1 /\ c.page_size <= MaxPageSize)
RequestValidationError ==
    Reply(422, <<"page_size:", "Input", "should", "be", "in", "range">>, <<>>)

\* global_exception_handler of app/main.py
InternalServerError == Reply(500, <<"Internal", "server", "error.">>, <<>>)

\* search_documents: the answer, grounding chunks and sources of the response
RECURSIVE JoinTexts_concat(_)
JoinTexts_concat(texts) ==
    IF texts = <<>> THEN <<>> ELSE Head(texts) \o JoinTexts_concat(Tail(texts))
RECURSIVE JoinTexts(_)
JoinTexts(texts) ==
    IF texts = <<>> THEN <<>>
    ELSE IF Len(texts) = 1 THEN texts[1]
    ELSE texts[1] \o <<" ">> \o JoinTexts(Tail(texts))

FromKeys_keep_all(seq, seen) == seq
RECURSIVE FromKeys(_, _)
FromKeys(seq, seen) ==
    IF seq = <<>> THEN <<>>
    ELSE IF Head(seq) \in seen THEN FromKeys(Tail(seq), seen)
    ELSE <<Head(seq)>> \o FromKeys(Tail(seq), seen \cup {Head(seq)})

RECURSIVE ChunkSources_title_first(_)
ChunkSources_title_first(chunks) ==
    IF chunks = <<>> THEN <<>>
    ELSE LET c == Head(chunks)
             own == IF ~Has(c.retrievedContext) THEN <<>>
                    ELSE IF Has(c.retrievedContext[1].title) THEN c.retrievedContext[1].title
                    ELSE IF Has(c.retrievedContext[1].uri) THEN c.retrievedContext[1].uri
                    ELSE <<>>
         IN own \o ChunkSources_title_first(Tail(chunks))

RECURSIVE ChunkSources(_)
ChunkSources(chunks) ==
    IF chunks = <<>> THEN <<>>
    ELSE LET c == Head(chunks)
             own == IF ~Has(c.retrievedContext) THEN <<>>
                    ELSE IF Has(c.retrievedContext[1].uri) THEN c.retrievedContext[1].uri
                    ELSE IF Has(c.retrievedContext[1].title) THEN c.retrievedContext[1].title
                    ELSE <<>>
         IN own \o ChunkSources(Tail(chunks))

SearchResult_bare_fallback(answer, chunks, sources) ==
    IF answer # <<>>
      THEN [answer |-> answer, grounding_chunks |-> chunks, sources |-> sources]
    ELSE [answer |-> <<"No", " ", "answer", " ", "found.">>, grounding_chunks |-> <<>>,
          sources |-> <<>>]
SearchResult_answer_as_is(answer, chunks, sources) ==
    [answer |-> answer, grounding_chunks |-> chunks, sources |-> sources]
SearchResult(answer, chunks, sources) ==
    [answer |-> IF answer # <<>> THEN answer ELSE <<"No", " ", "answer", " ", "found.">>,
     grounding_chunks |-> chunks, sources |-> sources]

\* if "error" in response: raise FileSearchAPIError(f"Gemini API error: {error_message}")
api_error(r) ==
    Threw(FileSearchAPIError(
            <<"Gemini", "API", "error:">>
            \o (IF Has(r.error[1].message) THEN r.error[1].message[1]
                ELSE <<"Unknown", "API", "error">>)))

\* if feedback.get("blockReason"): raise ValueError(f"Search query was blocked: ...")
is_blocked(r) == Has(r.promptFeedback) /\ Has(r.promptFeedback[1].blockReason)
prompt_blocked_no_reason(r) == Threw(Exc("ValueError", <<"Search", "query", "was", "blocked">>))
prompt_blocked(r) ==
    Threw(Exc("ValueError", <<"Search", "query", "was", "blocked:">>
                             \o r.promptFeedback[1].blockReason))

\* The answer, grounding chunks and sources of the first candidate, if any
extract(r) ==
    IF Has(r.candidates) /\ Len(r.candidates[1]) > 0
      THEN LET candidate == r.candidates[1][1]
               parts == IF Has(candidate.content) /\ Has(candidate.content[1].parts)
                          THEN candidate.content[1].parts[1] ELSE <<>>
               with_text == SelectSeq(parts, LAMBDA p : Has(p.text))
               answer == JoinTexts([i \in 1..Len(with_text) |-> with_text[i].text[1]])
               chunks == IF Has(candidate.groundingMetadata)
                            /\ Has(candidate.groundingMetadata[1].groundingChunks)
                           THEN candidate.groundingMetadata[1].groundingChunks[1]
                         ELSE <<>>
           IN Returned(SearchResult(answer, chunks, FromKeys(ChunkSources(chunks), {})))
    ELSE Returned(SearchResult(<<>>, <<>>, <<>>))

\* The body of search_documents after search_with_gemini returned r
normalize_block_first(r) ==
    IF ~r.isdict
      THEN Threw(Exc("ValueError", <<"Invalid", "API", "response", "type:", "list">>))
    ELSE IF is_blocked(r) THEN prompt_blocked(r)
    ELSE IF Has(r.error) THEN api_error(r)
    ELSE extract(r)
normalize(r) ==
    IF ~r.isdict
      THEN Threw(Exc("ValueError", <<"Invalid", "API", "response", "type:", "list">>))
    ELSE IF Has(r.error) THEN api_error(r)
    ELSE IF is_blocked(r) THEN prompt_blocked(r)
    ELSE extract(r)

\* error_msg.lower(), word by word
Lower(w) ==
    CASE w = "Quota" -> "quota"
      [] w = "Rate" -> "rate"
      [] w = "Limit" -> "limit"
      [] OTHER -> w

\* "429" in error_msg or "quota" in error_msg.lower() or "rate limit" in error_msg.lower()
is_rate_limited_429_only(msg) == \E i \in 1..Len(msg) : msg[i] = "429"
is_rate_limited(msg) ==
    \/ \E i \in 1..Len(msg) : msg[i] = "429"
    \/ \E i \in 1..Len(msg) : Lower(msg[i]) = "quota"
    \/ \E i \in 1..(Len(msg) - 1) : Lower(msg[i]) = "rate" /\ Lower(msg[i + 1]) = "limit"

\* The response of the route that calls facade method op, given how the method ended
Route(op, r) ==
    IF op = "search_with_gemini"
      THEN LET n == IF r.failed THEN r ELSE normalize(r.value[1])
           IN IF ~n.failed THEN Reply(200, <<>>, n.value)
              ELSE IF IsInstance(n.exc[1], {"FileSearchAPIError"})
                THEN Reply(IF is_rate_limited(n.exc[1].msg) THEN 429 ELSE 500,
                           n.exc[1].msg, <<>>)
              ELSE Reply(500, n.exc[1].msg, <<>>)
    ELSE IF ~r.failed THEN Reply(SuccessStatus(op), <<>>, r.value)
    ELSE IF IsInstance(r.exc[1], {"FileSearchAPIError"})
      THEN Reply(ErrorStatus(op), r.exc[1].msg, <<>>)
    ELSE InternalServerError

-----------------------------------------------------------------------------
(* The upload: POST /api/stores/{store_id}/upload (app/routers/media.py),     *)
(* upload_to_file_search_store and upload_file_to_files_api                   *)

\* Settings.max_upload_size, in bytes of the model's files (100 MB in deps.py)
MaxUploadSize == 2

\* An uploaded file's name, and Path(filename).suffix.lower()
Filename(stem, suffix) == [stem |-> stem, suffix |-> suffix]
suffix_ignored(name) == ".txt"
suffix_lower(name) ==
    CASE name.suffix = ".TXT" -> ".txt"
      [] OTHER -> name.suffix

\* temp_dir / (file.filename or "upload")
temp_file(filename) == IF Has(filename) THEN filename[1] ELSE Filename("upload", "")

\* mimetypes.guess_type(str(file_path)), or application/octet-stream
guess_type(path) ==
    CASE path.suffix = ".txt" -> "text/plain"
      [] path.suffix = ".pdf" -> "application/pdf"
      [] OTHER -> "application/octet-stream"

\* Path.write_bytes, Path.unlink, Path.exists on /tmp/uploads
write_bytes(d, path, content) ==
    [p \in DOMAIN d \cup {path} |-> IF p = path THEN content ELSE d[p]]
unlink(d, path) == [p \in DOMAIN d \ {path} |-> d[p]]
exists(d, path) == path \in DOMAIN d

\* The finally clause of upload_to_store: if temp_file.exists(): temp_file.unlink()
cleanup_skipped(d, path) == d
cleanup(d, path) == IF exists(d, path) THEN unlink(d, path) ELSE d

\* The start request of do_resumable_upload: the metadata as JSON, the key and the
\* upload protocol headers
start_request(s, display_name, file_size, mime_type) ==
    [via |-> "upload_file_to_files_api", method |-> "POST",
     url |-> <<s.api_base_url, "/upload/v1beta/files">>,
     headers |-> { <<"X-Goog-Api-Key", s.google_api_key>>,
                   <<"X-Goog-Upload-Protocol", "resumable">>,
                   <<"X-Goog-Upload-Command", "start">>,
                   <<"X-Goog-Upload-Header-Content-Length", ToString(file_size)>>,
                   <<"X-Goog-Upload-Header-Content-Type", mime_type>>,
                   <<"Content-Type", "application/json">> },
     params |-> {},
     json |-> {<<"file", IF Has(display_name) THEN {<<"displayName", display_name[1]>>}
                         ELSE {}>>},
     timeout |-> s.api_timeout * 2, content |-> <<>>]

\* The upload+finalize request: the file's bytes to the session URI
finalize_request(s, upload_uri, file_content) ==
    [via |-> "upload_file_to_files_api", method |-> "POST",
     url |-> upload_uri,
     headers |-> { <<"X-Goog-Upload-Command", "upload, finalize">>,
                   <<"X-Goog-Upload-Offset", "0">>,
                   <<"Content-Length", ToString(Len(file_content))>> },
     params |-> {}, json |-> {},
     timeout |-> s.api_timeout * 2, content |-> <<file_content>>]

IsStart(r) ==
    r.via = "upload_file_to_files_api" /\ <<"X-Goog-Upload-Command", "start">> \in r.headers
IsFinalize(r) ==
    r.via = "upload_file_to_files_api"
        /\ <<"X-Goog-Upload-Command", "upload, finalize">> \in r.headers
IsImport(r) == r.via = "_request"

\* Upstream's answer to an upload request: a response with, for the start
\* request, the X-Goog-Upload-URL header (<<>> when absent)
UploadResp(status, upload_url, body) ==
    [type |-> "response", status_code |-> status, body |-> body, upload_url |-> upload_url]
NoUploadUrl(t) ==
    [type |-> t.type, status_code |-> t.status_code, body |-> t.body, upload_url |-> <<>>]

\* The session URI upstream opens for a start request: a new one each time
SessionUri(id, n) == <<"https://upload.example/session/", ToString(id), "-", ToString(n)>>

\* The file resource JSON of the finalize response
FileJson(isdict, file, name) == [isdict |-> isdict, file |-> file, name |-> name]
FileName(id) == <<"files/", ToString(id)>>

\* start_response.headers.get("X-Goog-Upload-URL"); if not upload_uri: raise
has_upload_uri(t) == Has(t.upload_url) /\ t.upload_url[1] # <<>>

\* The start phase of do_resumable_upload: post, raise_for_status, the header;
\* a value is the session URI to upload to
start_phase(t) ==
    IF t.type # "response" THEN Threw(TransportError(t))
    ELSE IF ~is_success(t) THEN Threw(HTTPStatusError(t))
    ELSE IF ~has_upload_uri(t)
      THEN Threw(FileSearchAPIError(<<"No", "upload", "URL", "returned", "from", "start",
                                      "request">>))
    ELSE Returned(t.upload_url[1])

\* The upload+finalize phase: post, raise_for_status, upload_response.json()
finalize_phase(t) ==
    IF t.type # "response" THEN Threw(TransportError(t))
    ELSE IF ~is_success(t) THEN Threw(HTTPStatusError(t))
    ELSE response_json(t)

\* upload_file_to_files_api after do_resumable_upload: the file resource (whose
\* name is looked up for the log line), or FileSearchAPIError
upload_file_to_files_api(o) ==
    ExceptClauses(<<"File", "upload", "error:">>, <<"File", "upload", "failed:">>,
        IF ~o.failed /\ ~o.value[1].isdict
          THEN Threw(Exc("AttributeError", <<"'list'", "object", "has", "no", "attribute",
                                             "'get'">>))
        ELSE o)

\* upload_to_file_search_store: the file name of the file resource
file_name_or_unknown(fr) ==
    IF Has(fr.file) /\ Has(fr.file[1].name) THEN fr.file[1].name
    ELSE IF Has(fr.name) THEN fr.name
    ELSE << <<"unknown">> >>
file_name_of(fr) == IF Has(fr.file) THEN fr.file[1].name ELSE fr.name

\* tenacity's iter() after an attempt of number n ended with o under decorator c:
\* the call ends with o, stops (reraise), or sleeps and retries
decide(c, n, o) ==
    IF ~retry_if_exception_type(c.exceptions, o) THEN "end"
    ELSE IF stop_after_attempt(c.max_attempts, n) THEN "stop"
    ELSE "sleep"

\* The decorator wraps do_resumable_upload as a whole: a retry runs it again from
\* its first line, whichever request failed
RetriedPhase_failed(failed_phase) == failed_phase
RetriedPhase(failed_phase) == "start"

\* The session URI the upload+finalize request goes to: the one of the start
\* response of this attempt
finalize_uri_first(held, upload_uri) == IF Has(held) THEN held[1] ELSE upload_uri
finalize_uri(held, upload_uri) == upload_uri

\* Each decorated call has its own retry state: import_file's make_request starts
\* at attempt 1 whatever the upload took
first_attempt_continued(n) == n
first_attempt(n) == 1

\* The bytes the upload+finalize request carries: file_content, read from the
\* temporary file before the first request
content_reread(file_content, d, path) == IF exists(d, path) THEN d[path] ELSE <<>>
content_sent(file_content, d, path) == file_content[1]

\* What the upload route answers with, given how upload_to_file_search_store
\* ended: 202 and the operation, or HTTPException 500 carrying str(e)
upload_reply(r) ==
    IF ~r.failed THEN Reply(202, <<>>, r.value)
    ELSE Reply(500, r.exc[1].msg, <<>>)

-----------------------------------------------------------------------------
(* The upload requests being served. The handlers run on one event loop: a    *)
(* handler runs alone from one await of I/O to the next, so each action below  *)
(* is the code between two such awaits (file.read(), client.post(), the sleep  *)
(* between attempts).                                                          *)

\* An upload request as it arrives: the store, the file's name (<<>> when the
\* part has none) and the bytes its caller sent
NewTask(id, store_name, filename, content) ==
    [id |-> id, pc |-> "route", store_name |-> store_name, filename |-> filename,
     content |-> content,
     chunking_config |-> <<ChunkingConfig(200, 20)>>,   \* from the form's defaults
     file_content |-> <<>>,    \* the bytes read back from the temporary file
     attempt_number |-> 1,     \* of the decorated call in progress
     upload_uri |-> <<>>,      \* the session URI of the last start response
     failed_phase |-> "none",  \* the request whose failure is being slept on
     file_name |-> <<>>,       \* the file name given to import_file
     sent |-> <<>>,            \* the requests sent upstream, in order
     got |-> <<>>,             \* what each of them ended with
     result |-> <<>>,          \* how upload_to_file_search_store ended
     reply |-> <<>>]           \* the route's response

Alone == Len(task) = 1

\* What upstream may answer the requests of the upload with; while two uploads
\* are served together, the success and one failure of each request
StartResults(id, n) ==
    { UploadResp(200, <<SessionUri(id, n)>>, EmptyBody),
      UploadResp(500, <<>>, Body(<<"Internal", "error">>, <<>>)) }
      \cup IF Alone THEN { UploadResp(200, <<>>, EmptyBody),
                           UploadResp(200, << <<>> >>, EmptyBody),
                           NoUploadUrl(TimedOut), NoUploadUrl(ConnectFailed) }
           ELSE {}

FinalizeResults(id) ==
    { UploadResp(200, <<>>, Body(<<"{file:{name}}">>,
                                 << FileJson(TRUE, << [name |-> <<FileName(id)>>] >>, <<>>) >>)),
      UploadResp(503, <<>>, Body(<<"Unavailable">>, <<>>)) }
      \cup IF Alone
             THEN { UploadResp(200, <<>>, Body(<<"{name}">>,
                                               << FileJson(TRUE, <<>>, <<FileName(id)>>) >>)),
                    UploadResp(200, <<>>, Body(<<"{file:{}}">>,
                                               << FileJson(TRUE, << [name |-> <<>>] >>, <<>>) >>)),
                    UploadResp(200, <<>>, Body(<<"{}">>, << FileJson(TRUE, <<>>, <<>>) >>)),
                    UploadResp(200, <<>>, Body(<<"[]">>, << FileJson(FALSE, <<>>, <<>>) >>)),
                    UploadResp(200, <<>>, EmptyBody),
                    NoUploadUrl(TimedOut) }
           ELSE {}

ImportResults(store_name) ==
    { Resp(200, Body(<<"{operation}">>,
                     << ResourceJson(<< store_name \o <<"/operations/", "o1">> >>,
                                     <<>>, <<>>, <<>>, <<>>) >>)),
      Resp(500, Body(<<"Import", "failed">>, <<>>)) }
      \cup IF Alone THEN { Resp(200, EmptyJsonBody("import_file")), TimedOut, ConnectFailed }
           ELSE {}

\* The import call of a task, as import_file gives it to _request
ImportCall(tk) ==
    [op |-> "import_file", page_size |-> DefaultPageSize, store_name |-> tk.store_name,
     file_name |-> tk.file_name[1], chunking_config |-> tk.chunking_config,
     force |-> FALSE, entry |-> "upload_to_file_search_store"]

\* upload_to_file_search_store ended with r (a value or an exception), after the
\* pending request ended with t: the route's finally clause removes the
\* temporary file and the route answers
Finish(id, r, t) ==
    /\ task' = [task EXCEPT ![id] = [@ EXCEPT !.pc = "done", !.got = Append(@, t),
                                               !.result = <<r>>,
                                               !.reply = <<upload_reply(r)>>]]
    /\ disk' = cleanup(disk, temp_file(task[id].filename))

\* An attempt of do_resumable_upload raised o in phase (start or finalize)
UploadAttemptFailed(id, phase, o, t) ==
    LET d == decide(retry_decorator(settings), task[id].attempt_number, o) IN
    IF d = "sleep"
      THEN /\ task' = [task EXCEPT ![id] = [@ EXCEPT !.pc = "upload_sleep",
                                                     !.failed_phase = phase,
                                                     !.got = Append(@, t)]]
           /\ UNCHANGED disk
    ELSE Finish(id, upload_file_to_files_api(IF d = "stop" THEN Reraise(o) ELSE o), t)

\* upload_to_store up to its first await: the extension check, then file.read()
UploadReceives ==
    \E id \in DOMAIN task :
    /\ task[id].pc = "route"
    /\ LET tk == task[id] IN
       IF Has(tk.filename) /\ suffix_lower(tk.filename[1]) \notin settings.allowed_extensions
         THEN task' = [task EXCEPT ![id] =
                          [@ EXCEPT !.pc = "done",
                                    !.reply = <<Reply(400, <<"File", "extension",
                                                  suffix_lower(tk.filename[1]), "not",
                                                  "allowed.">>, <<>>)>>]]
       ELSE task' = [task EXCEPT ![id].pc = "reading"]
    /\ UNCHANGED disk
    /\ UNCHANGED <<retryVars, svcVars, flow>>

\* file.read() returned: the size check, write_bytes, then (with no await in
\* between) upload_to_file_search_store, upload_file_to_files_api reading the
\* file back, and the start request of the first attempt
UploadWrites ==
    \E id \in DOMAIN task :
    /\ task[id].pc = "reading"
    /\ LET tk == task[id]
           path == temp_file(tk.filename)
           written == write_bytes(disk, path, tk.content)
       IN
       IF Len(tk.content) > settings.max_upload_size
         THEN /\ task' = [task EXCEPT ![id] =
                            [@ EXCEPT !.pc = "done",
                                      !.reply = <<Reply(413, <<"File", "size",
                                                    ToString(Len(tk.content)), "exceeds",
                                                    "maximum">>, <<>>)>>]]
              /\ UNCHANGED disk
       ELSE IF ~exists(written, path)
         THEN /\ task' = [task EXCEPT ![id] =
                   [@ EXCEPT !.pc = "done",
                             !.result = <<Threw(FileSearchAPIError(<<"File", "not", "found:">>))>>,
                             !.reply = <<upload_reply(Threw(FileSearchAPIError(
                                                        <<"File", "not", "found:">>)))>>]]
              /\ disk' = cleanup(written, path)
       ELSE /\ task' = [task EXCEPT ![id] =
                   [@ EXCEPT !.pc = "start_sent",
                             !.file_content = <<written[path]>>,
                             !.sent = Append(@, start_request(settings, tk.filename,
                                                  Len(written[path]), guess_type(path)))]]
            /\ disk' = written
    /\ UNCHANGED <<retryVars, svcVars, flow>>

\* The start request ended: with a session URI the upload+finalize request goes
\* out; else the attempt has failed
UploadStartResponds ==
    \E id \in DOMAIN task :
    /\ task[id].pc = "start_sent"
    /\ \E t \in StartResults(id, task[id].attempt_number) :
        LET tk == task[id]
            o == start_phase(t)
        IN IF o.failed THEN UploadAttemptFailed(id, "start", o, t)
           ELSE /\ task' = [task EXCEPT ![id] =
                     [@ EXCEPT !.pc = "finalize_sent",
                               !.upload_uri = <<o.value[1]>>,
                               !.got = Append(@, t),
                               !.sent = Append(@, finalize_request(settings,
                                           finalize_uri(tk.upload_uri, o.value[1]),
                                           content_sent(tk.file_content, disk,
                                                        temp_file(tk.filename))))]]
                /\ UNCHANGED disk
    /\ UNCHANGED <<retryVars, svcVars, flow>>

\* The upload+finalize request ended. A file resource with a name is given to
\* import_file, whose request goes out under a retry state of its own; without a
\* name, or on a failure not to be retried, the operation fails.
UploadFinalizeResponds ==
    \E id \in DOMAIN task :
    /\ task[id].pc = "finalize_sent"
    /\ \E t \in FinalizeResults(id) :
        LET tk == task[id]
            o == finalize_phase(t)
            fr == upload_file_to_files_api(o)
            name == file_name_of(fr.value[1])
            importing == [tk EXCEPT !.pc = "import_sent",
                                    !.file_name = name,
                                    !.attempt_number = first_attempt(@),
                                    !.got = Append(@, t)]
        IN IF o.failed THEN UploadAttemptFailed(id, "finalize", o, t)
           ELSE IF fr.failed THEN Finish(id, fr, t)
           ELSE IF ~Has(name)
             THEN Finish(id, Threw(FileSearchAPIError(<<"Failed", "to", "get", "file", "name",
                                                       "from", "upload", "response">>)), t)
           ELSE /\ task' = [task EXCEPT ![id] =
                     [importing EXCEPT !.sent = Append(@, HttpRequest("make_request",
                                                    ImportCall(importing), settings))]]
                /\ UNCHANGED disk
    /\ UNCHANGED <<retryVars, svcVars, flow>>

\* The sleep between two attempts of do_resumable_upload is over: the next
\* attempt sends its first request
UploadSleepElapses ==
    \E id \in DOMAIN task :
    /\ task[id].pc = "upload_sleep"
    /\ LET tk == task[id]
           path == temp_file(tk.filename)
       IN IF RetriedPhase(tk.failed_phase) = "start"
            THEN task' = [task EXCEPT ![id] =
                    [@ EXCEPT !.pc = "start_sent",
                              !.attempt_number = @ + 1,
                              !.sent = Append(@, start_request(settings, tk.filename,
                                                   Len(tk.file_content[1]), guess_type(path)))]]
          ELSE task' = [task EXCEPT ![id] =
                    [@ EXCEPT !.pc = "finalize_sent",
                              !.attempt_number = @ + 1,
                              !.sent = Append(@, finalize_request(settings, tk.upload_uri[1],
                                                   content_sent(tk.file_content, disk, path)))]]
    /\ UNCHANGED disk
    /\ UNCHANGED <<retryVars, svcVars, flow>>

\* The import request ended: make_request's outcome under the retry decorator,
\* then _request's except clauses and Operation(**response)
ImportResponds ==
    \E id \in DOMAIN task :
    /\ task[id].pc = "import_sent"
    /\ \E t \in ImportResults(task[id].store_name) :
        LET tk == task[id]
            o == make_request(t)
            d == decide(retry_decorator(settings), tk.attempt_number, o)
            r == request(IF d = "stop" THEN Reraise(o) ELSE o)
        IN IF d = "sleep"
             THEN /\ task' = [task EXCEPT ![id] = [@ EXCEPT !.pc = "import_sleep",
                                                            !.got = Append(@, t)]]
                  /\ UNCHANGED disk
           ELSE Finish(id, IF r.failed THEN r ELSE Operation(r.value[1]), t)
    /\ UNCHANGED <<retryVars, svcVars, flow>>

\* The sleep between two attempts of the import request is over
ImportSleepElapses ==
    \E id \in DOMAIN task :
    /\ task[id].pc = "import_sleep"
    /\ task' = [task EXCEPT ![id] =
            [@ EXCEPT !.pc = "import_sent",
                      !.attempt_number = @ + 1,
                      !.sent = Append(@, HttpRequest("make_request", ImportCall(task[id]),
                                                     settings))]]
    /\ UNCHANGED disk
    /\ UNCHANGED <<retryVars, svcVars, flow>>

-----------------------------------------------------------------------------
(* The retry loop (tenacity's Retrying.__call__ / iter) around fn *)

\* What one invocation of the plain function of tests/unit/test_retry.py can do
FnOutcomes ==
    { Returned("success"),
      Threw(Exc("ValueError", <<"Temporary", "error">>)),
      Threw(Exc("ValueError", <<"Persistent", "error">>)),
      Threw(Exc("TypeError", <<"Wrong", "error", "type">>)) }

\* What one invocation of wrapped function f can meet (for the plain function of
\* the tests, its own outcome), and what the invocation then ends with
Results(f, op) == IF f = "fn" THEN FnOutcomes ELSE TransportResults(op)
Invoke(f, t) ==
    CASE f = "fn" -> t
      [] f = "make_request" -> make_request(t)
      [] f = "fetch_models" -> fetch_models(t)
      [] f = "generate_content" -> generate_content(t)
Outcomes(f, op) == { Invoke(f, t) : t \in Results(f, op) }

DoAttempt_speculative ==
    /\ pc = "ready"
    /\ pc' = "attempt"
    /\ events' = events
    /\ sent' = Append(Append(sent, HttpRequest(fn, call, settings)),
                      HttpRequest(fn, call, settings))
    /\ UNCHANGED <<cfg, fn, attempt_number, outcome, calls, got, sleeps, final>>
    /\ UNCHANGED <<settings, call, result, reply>>
    /\ UNCHANGED <<uploadVars, flow>>
\* The wrapped function is invoked: attempt number attempt_number starts (the
\* before= hook, if any, runs first, with no outcome yet), and a function of the
\* service issues its HTTP request.
DoAttempt ==
    /\ pc = "ready"
    /\ pc' = "attempt"
    /\ events' = IF log_hook = "before"
                   THEN Append(events, log_retry_attempt(fn, attempt_number, outcome))
                   ELSE events
    /\ sent' = IF fn = "fn" THEN sent
               ELSE Append(sent, HttpRequest(fn, call, settings))
    /\ UNCHANGED <<cfg, fn, attempt_number, outcome, calls, got, sleeps, final>>
    /\ UNCHANGED <<settings, call, result, reply>>
    /\ UNCHANGED <<uploadVars, flow>>

\* The invocation ends with outcome o, and tenacity's iter() decides: return the
\* value or let a non-retryable exception through; else run after=; stop and
\* reraise; or compute the wait, run before_sleep= and sleep.
AttemptEnds ==
    /\ pc = "attempt"
    /\ \E t \in Results(fn, call.op) :
        LET o == Invoke(fn, t)
            logged == Append(events, log_retry_attempt(fn, attempt_number, <<o>>))
            after  == IF log_hook = "after" THEN logged ELSE events
        IN
        /\ outcome' = <<o>>
        /\ calls' = Append(calls, o)
        /\ got' = Append(got, t)
        /\ IF ~retry_if_exception_type(cfg.exceptions, o)
             THEN /\ pc' = IF o.failed THEN "raised" ELSE "returned"
                  /\ final' = <<o>>
                  /\ UNCHANGED <<events, sleeps>>
           ELSE IF stop_after_attempt(cfg.max_attempts, attempt_number)
             THEN /\ pc' = "raised"
                  /\ final' = <<Reraise(o)>>
                  /\ events' = after
                  /\ UNCHANGED sleeps
           ELSE /\ pc' = "sleep"
                /\ sleeps' = Append(sleeps,
                                wait_exponential(cfg.min_wait, cfg.max_wait, attempt_number))
                /\ events' = IF log_hook = "before_sleep" THEN logged ELSE after
                /\ UNCHANGED final
    /\ UNCHANGED <<cfg, fn, attempt_number>>
    /\ UNCHANGED svcVars
    /\ UNCHANGED <<uploadVars, flow>>

\* The sleep is over: retry_state.prepare_for_next_attempt()
SleepElapses ==
    /\ pc = "sleep"
    /\ pc' = "ready"
    /\ attempt_number' = attempt_number + 1
    /\ outcome' = <<>>
    /\ UNCHANGED <<cfg, fn, calls, got, events, sleeps, final>>
    /\ UNCHANGED svcVars
    /\ UNCHANGED <<uploadVars, flow>>

-----------------------------------------------------------------------------
(* The policy alone, around a plain function, for every configuration *)

MinWaits == {1, 10, 100, 300}
MaxWaits == {10, 400, 1000}
ExceptionSets == {{"Exception"}, {"ValueError"}}

NoSettings ==
    [google_api_key |-> "", api_base_url |-> "", api_timeout |-> DefaultTimeout,
     api_max_retries |-> 1, api_retry_delay |-> Multiplier,
     max_upload_size |-> MaxUploadSize, allowed_extensions |-> {}]
NoConfig == [max_attempts |-> 1, min_wait |-> 0, max_wait |-> 0, exceptions |-> {}]

InitRetry ==
    /\ cfg \in [max_attempts : 1..MaxAttemptsBound, min_wait : MinWaits,
                max_wait : MaxWaits, exceptions : ExceptionSets]
    /\ fn = "fn"
    /\ pc = "ready"
    /\ attempt_number = 1
    /\ outcome = <<>>
    /\ calls = <<>>
    /\ got = <<>>
    /\ events = <<>>
    /\ sleeps = <<>>
    /\ final = <<>>
    /\ settings = NoSettings
    /\ call = Call("none", DefaultPageSize, "none")
    /\ sent = <<>>
    /\ result = <<>>
    /\ reply = <<>>
    /\ task = <<>>
    /\ disk = <<>>
    /\ flow = <<>>

NextRetry == DoAttempt \/ AttemptEnds \/ SleepElapses

SpecRetry == InitRetry /\ [][NextRetry]_vars

-----------------------------------------------------------------------------
(* One route call: handler -> facade method -> retried HTTP call -> response *)

RetryDelays == {10, 100}

SettingsSet ==
    [google_api_key : {"test_api_key"},
     api_base_url : {"https://generativelanguage.googleapis.com"},
     api_timeout : {DefaultTimeout},
     api_max_retries : 1..MaxAttemptsBound,
     api_retry_delay : RetryDelays,
     max_upload_size : {MaxUploadSize},
     allowed_extensions : {{".txt", ".pdf"}}]

\* The page sizes a caller may ask for, and the calls made: every operation from
\* its route with the default page size, the list operations with every page
\* size, from the route and from a caller of the service
PageSizes == {0, 1, DefaultPageSize, MaxPageSize, MaxPageSize + 1, 50}
ListOps == {"list_stores", "list_documents"}
FormChunkings == { ChunkingConfig(200, 20), ChunkingConfig(512, 50) }
Calls ==
    { Call(op, DefaultPageSize, "route") : op \in Ops \ {"import_file"} }
        \cup { Call(op, n, e) : op \in ListOps, n \in PageSizes, e \in {"route", "facade"} }
        \cup { WithChunking(Call("import_file", DefaultPageSize, "route"), <<cc>>) :
                  cc \in FormChunkings }
        \cup { Call("import_file", DefaultPageSize, "facade") }
        \cup { WithForce(Call(op, DefaultPageSize, "route"), TRUE) :
                  op \in {"delete_store", "delete_document"} }

InitCall ==
    /\ settings \in SettingsSet
    /\ call \in Calls
    /\ pc = "route"
    /\ cfg = NoConfig
    /\ fn = "none"
    /\ attempt_number = 1
    /\ outcome = <<>>
    /\ calls = <<>>
    /\ got = <<>>
    /\ events = <<>>
    /\ sleeps = <<>>
    /\ final = <<>>
    /\ sent = <<>>
    /\ result = <<>>
    /\ reply = <<>>
    /\ task = <<>>
    /\ disk = <<>>
    /\ flow = <<>>

\* The uploads served: one alone, with every file and every answer of upstream,
\* or two together, to different stores, with the same filename or not
Files == { <<Filename("a", ".txt")>>, <<Filename("a", ".TXT")>>, <<Filename("a", ".exe")>>, <<>> }
Contents == { <<"A">>, <<"A", "A", "A">> }
UploadsAlone ==
    { <<WithChunking(NewTask(1, StoreName, f, c), <<cc>>)>> :
        f \in Files, c \in Contents, cc \in FormChunkings }
UploadsTogether ==
    { <<NewTask(1, StoreName, <<Filename("a", ".txt")>>, <<"A">>),
        NewTask(2, <<"fileSearchStores/", "s2">>, f, <<"B">>)>> :
            f \in { <<Filename("a", ".txt")>>, <<Filename("b", ".txt")>> } }

InitUpload ==
    /\ \/ /\ task \in UploadsAlone
          /\ settings \in {s \in SettingsSet : s.api_retry_delay = Multiplier}
       \/ /\ task \in UploadsTogether
          /\ settings \in {s \in SettingsSet : s.api_retry_delay = Multiplier
                                                /\ s.api_max_retries = 2}
    /\ disk = <<>>
    /\ flow = <<>>
    /\ call = Call("upload_to_store", DefaultPageSize, "route")
    /\ pc = "upload"
    /\ cfg = NoConfig
    /\ fn = "none"
    /\ attempt_number = 1
    /\ outcome = <<>>
    /\ calls = <<>>
    /\ got = <<>>
    /\ events = <<>>
    /\ sleeps = <<>>
    /\ final = <<>>
    /\ sent = <<>>
    /\ result = <<>>
    /\ reply = <<>>

Init == InitCall \/ InitUpload

\* The handler builds FileSearchService(settings) and calls the facade method,
\* which calls its decorated function.
RouteCallsFacade ==
    /\ pc = "route"
    /\ call.entry = "route" => QueryValid(call)
    /\ cfg' = retry_decorator(settings)
    /\ fn' = WrappedBy(call.op)
    /\ pc' = "ready"
    /\ UNCHANGED <<attempt_number, outcome, calls, got, events, sleeps, final>>
    /\ UNCHANGED svcVars
    /\ UNCHANGED <<uploadVars, flow>>

\* The decorated function returned or raised: the rest of the facade method
FacadeEnds ==
    /\ pc \in {"returned", "raised"}
    /\ fn # "fn"
    /\ result' = <<Facade(call.op, final[1])>>
    /\ pc' = "facade_done"
    /\ UNCHANGED <<cfg, fn, attempt_number, outcome, calls, got, events, sleeps, final>>
    /\ UNCHANGED <<settings, call, sent, reply>>
    /\ UNCHANGED <<uploadVars, flow>>

\* FastAPI rejects the request before the handler runs
RouteRejects ==
    /\ pc = "route"
    /\ call.entry = "route"
    /\ ~QueryValid(call)
    /\ reply' = <<RequestValidationError>>
    /\ pc' = "done"
    /\ UNCHANGED <<cfg, fn, attempt_number, outcome, calls, got, events, sleeps, final>>
    /\ UNCHANGED <<settings, call, sent, result>>
    /\ UNCHANGED <<uploadVars, flow>>

\* The rest of the route handler: the response, or the HTTPException
RouteResponds ==
    /\ pc = "facade_done"
    /\ call.entry = "route"
    /\ reply' = <<Route(call.op, result[1])>>
    /\ pc' = "done"
    /\ UNCHANGED <<cfg, fn, attempt_number, outcome, calls, got, events, sleeps, final>>
    /\ UNCHANGED <<settings, call, sent, result>>
    /\ UNCHANGED <<uploadVars, flow>>

Next ==
    \/ RouteCallsFacade
    \/ RouteRejects
    \/ DoAttempt
    \/ AttemptEnds
    \/ SleepElapses
    \/ FacadeEnds
    \/ RouteResponds
    \/ UploadReceives
    \/ UploadWrites
    \/ UploadStartResponds
    \/ UploadFinalizeResponds
    \/ UploadSleepElapses
    \/ ImportResponds
    \/ ImportSleepElapses

Spec == Init /\ [][Next]_vars

-----------------------------------------------------------------------------
(* A client making one request after the other, each once the one before was  *)
(* answered, as test_full_flow of tests/e2e/test_flow.py does: create a store, *)
(* upload a file to it, list its documents, delete it with force=true. The     *)
(* service keeps nothing between two requests: each route builds its           *)
(* FileSearchService from the settings. Upstream accepts every request.        *)

\* What an accepting upstream answers a request of operation op with
Accepts(op) ==
    { Resp(200, b) : b \in OkBodies(op) }
        \cup (IF op = "list_documents" THEN {Resp(200, EmptyJsonBody(op))} ELSE {})
        \cup (IF op = "delete_store" THEN {Resp(200, EmptyBody), Resp(200, EmptyJsonBody(op))}
              ELSE {})

\* Every answer an upload got is an acceptance: a session URI for a start
\* request, a named file for the bytes, a named operation for the import
AcceptedUpload(tk) ==
    \A i \in 1..Len(tk.got) :
        LET t == tk.got[i]
            r == tk.sent[i]
        IN /\ t.type = "response" /\ t.status_code = 200
           /\ IF IsStart(r) THEN has_upload_uri(t)
              ELSE /\ t.body.json # <<>>
                   /\ IF IsFinalize(r)
                        THEN t.body.json[1].isdict /\ Has(file_name_of(t.body.json[1]))
                      ELSE Has(t.body.json[1].name)

\* The client makes its next request, c: the call before is over. What the
\* client keeps of a finished step is the operation, the requests it made
\* upstream, upstream's last answer and the response
NextCall(c) ==
    /\ call' = c
    /\ pc' = IF c.op = "upload_to_store" THEN "upload" ELSE "route"
    /\ cfg' = NoConfig
    /\ fn' = "none"
    /\ attempt_number' = 1
    /\ outcome' = <<>>
    /\ calls' = <<>>
    /\ got' = <<>>
    /\ events' = <<>>
    /\ sleeps' = <<>>
    /\ final' = <<>>
    /\ sent' = <<>>
    /\ result' = <<>>
    /\ reply' = <<>>
    /\ UNCHANGED <<settings, disk>>

InitFlow ==
    /\ settings \in SettingsSet
    /\ call = Call("create_store", DefaultPageSize, "route")
    /\ pc = "route"
    /\ cfg = NoConfig
    /\ fn = "none"
    /\ attempt_number = 1
    /\ outcome = <<>>
    /\ calls = <<>>
    /\ got = <<>>
    /\ events = <<>>
    /\ sleeps = <<>>
    /\ final = <<>>
    /\ sent = <<>>
    /\ result = <<>>
    /\ reply = <<>>
    /\ task = <<>>
    /\ disk = <<>>
    /\ flow = <<>>

\* Upstream answers the request of a store, document or delete call
FlowAttemptEnds ==
    /\ AttemptEnds
    /\ got'[Len(got')] \in Accepts(call.op)

\* Upstream answers a request of the upload
FlowUploadResponds ==
    /\ UploadStartResponds \/ UploadFinalizeResponds \/ ImportResponds
    /\ AcceptedUpload(task'[1])

\* assert response.status_code == 201, then the upload to the store created
FlowUploads ==
    /\ Len(flow) = 0
    /\ pc = "done"
    /\ reply[1].status_code = 201
    /\ flow' = Append(flow, [op |-> call.op, sent |-> sent, got |-> got[Len(got)], reply |-> reply[1]])
    /\ \E f \in { Filename("test_document", ".txt"), Filename("a", ".TXT") },
          c \in { <<"A">>, <<"A", "A">> }, cc \in FormChunkings :
          task' = <<WithChunking(NewTask(1, reply[1].content[1].name, <<f>>, c), <<cc>>)>>
    /\ NextCall(Call("upload_to_store", DefaultPageSize, "route"))

\* assert response.status_code == 202, then the listing of the store's documents
FlowLists ==
    /\ Len(flow) = 1
    /\ pc = "upload"
    /\ task[1].pc = "done"
    /\ task[1].reply[1].status_code = 202
    /\ flow' = Append(flow, [op |-> call.op, sent |-> task[1].sent,
                           got |-> task[1].got[Len(task[1].got)],
                           reply |-> task[1].reply[1]])
    /\ NextCall([Call("list_documents", DefaultPageSize, "route")
                    EXCEPT !.store_name = task[1].store_name])
    /\ UNCHANGED task

\* assert response.status_code == 200, then the delete of the store with force=true
FlowDeletes ==
    /\ Len(flow) = 2
    /\ pc = "done"
    /\ reply[1].status_code = 200
    /\ flow' = Append(flow, [op |-> call.op, sent |-> sent, got |-> got[Len(got)], reply |-> reply[1]])
    /\ NextCall(WithForce([Call("delete_store", DefaultPageSize, "route")
                              EXCEPT !.store_name = call.store_name], TRUE))
    /\ UNCHANGED task

\* assert response.status_code == 204
FlowEnds ==
    /\ Len(flow) = 3
    /\ pc = "done"
    /\ reply[1].status_code = 204
    /\ flow' = Append(flow, [op |-> call.op, sent |-> sent, got |-> got[Len(got)], reply |-> reply[1]])
    /\ pc' = "flow_done"
    /\ UNCHANGED <<cfg, fn, attempt_number, outcome, calls, got, events, sleeps, final>>
    /\ UNCHANGED <<svcVars, uploadVars>>

NextFlow ==
    \/ RouteCallsFacade
    \/ DoAttempt
    \/ FlowAttemptEnds
    \/ FacadeEnds
    \/ RouteResponds
    \/ UploadReceives
    \/ UploadWrites
    \/ FlowUploadResponds
    \/ FlowUploads
    \/ FlowLists
    \/ FlowDeletes
    \/ FlowEnds

\* The handlers run to their end, upstream answers and the client goes on
SpecFlow == InitFlow /\ [][NextFlow]_vars /\ WF_vars(NextFlow)

\* Every HTTP call returns a response or fails, every sleep ends and every
\* handler runs on: no step that can be taken is put off for ever
SpecLive == Init /\ [][Next]_vars /\ WF_vars(Next)
-----------------------------------------------------------------------------
(* Properties of the retry policy (checked under SpecRetry) *)

Finished == pc \in {"returned", "raised"}

\* The configured retryable kinds: the error is an instance of one of them
RetryableFailure(o) == o.failed /\ \E t \in cfg.exceptions : t \in Ancestors(o.exc[1].kind)
NonRetryableFailure(o) == o.failed /\ ~RetryableFailure(o)

Last(seq) == seq[Len(seq)]

\* C1: when every attempt fails with a retryable error, the wrapped function is
\* invoked exactly max_attempts times and the call then raises the last attempt's
\* own exception: same class, same message, not wrapped.
C1_ExhaustionReraisesLast ==
    (Finished /\ \A i \in 1..Len(calls) : RetryableFailure(calls[i]))
        => /\ Len(calls) = cfg.max_attempts
           /\ pc = "raised"
           /\ final = <<Last(calls)>>
           /\ final[1].exc[1].kind = Last(calls).exc[1].kind
           /\ final[1].exc[1].msg = Last(calls).exc[1].msg

\* Three attempts were used up, and the last error differs from the first
C1_Witness ==
    /\ pc = "raised"
    /\ Len(calls) = 3
    /\ cfg.max_attempts = 3
    /\ \A i \in 1..3 : RetryableFailure(calls[i])
    /\ calls[1].exc[1].msg = <<"Temporary", "error">>
    /\ final[1].exc[1].msg = <<"Persistent", "error">>

\* C2: k retryable failures followed by a success on attempt k+1 (0 <= k <
\* max_attempts) end the call there: it returns that value after exactly k+1
\* invocations, with exactly k retry events.
C2_RetryThenSuccess ==
    \A k \in 0..(cfg.max_attempts - 1) :
        ( /\ Len(calls) > k
          /\ \A i \in 1..k : RetryableFailure(calls[i])
          /\ ~calls[k + 1].failed )
        => /\ pc = "returned"
           /\ Len(calls) = k + 1
           /\ final = <<calls[k + 1]>>
           /\ Len(events) = k
           /\ Len(sleeps) = k

\* Two failures, then success on the third attempt of three
C2_Witness ==
    /\ pc = "returned"
    /\ cfg.max_attempts = 3
    /\ Len(calls) = 3
    /\ calls[1].failed /\ calls[2].failed
    /\ Len(events) = 2
    /\ final[1].value = <<"success">>

\* C3: an error whose kind is not among the retryable kinds leaves the call at
\* once, as it is: raised on the first attempt it ends the call after exactly one
\* invocation, with no retry, no delay and no retry event (and on a later
\* attempt nothing follows it either).
C3_NonRetryablePropagates ==
    \A i \in 1..Len(calls) :
        NonRetryableFailure(calls[i])
        => /\ pc = "raised"
           /\ Len(calls) = i
           /\ final = <<calls[i]>>
           /\ Len(events) = i - 1
           /\ Len(sleeps) = i - 1
           /\ (i = 1 => (events = <<>> /\ sleeps = <<>> /\ attempt_number = 1))

\* A TypeError under exceptions=(ValueError,) ended the call on the first attempt
C3_Witness ==
    /\ pc = "raised"
    /\ cfg.exceptions = {"ValueError"}
    /\ cfg.max_attempts = 3
    /\ Len(calls) = 1
    /\ final[1].exc[1].kind = "TypeError"

\* C4 as stated: the delay after failed attempt n is
\* min(max_wait, min_wait * 2^(n-1)).
C4_DelayIsMinWaitDoubled ==
    \A n \in 1..Len(sleeps) :
        sleeps[n] = Min(cfg.max_wait, cfg.min_wait * Pow2(n - 1))

\* One second doubled n-1 times, then clamped from above by max_wait and from
\* below by min_wait (the floor wins when the two disagree)
ClampedExponential(n) ==
    LET base == Multiplier * Pow2(n - 1)
        capped == IF base > cfg.max_wait THEN cfg.max_wait ELSE base
    IN IF capped < cfg.min_wait THEN cfg.min_wait ELSE capped

\* C4 (amended): the delay after failed attempt n is
\* max(min_wait, min(max_wait, 1 second * 2^(n-1))): a function of the
\* configuration and n alone (no jitter), in which min_wait is a floor and not
\* the value that is doubled.
C4_DelayIsClampedExponential ==
    \A n \in 1..Len(sleeps) : sleeps[n] = ClampedExponential(n)

\* Two delays were slept with min_wait 0.1 s and max_wait 10 s: 1 s and 2 s
C4_Witness ==
    /\ cfg.min_wait = 10
    /\ cfg.max_wait = 1000
    /\ sleeps = <<100, 200>>

\* C5: one event per retry. The n-th event carries attempt number n and the
\* error of attempt n; it exists once attempt n has failed and is to be retried,
\* hence before attempt n+1 starts; the attempt that ends the call, failing or
\* succeeding, adds none.
C5_OneEventPerRetry ==
    /\ \A n \in 1..Len(events) :
          /\ n <= Len(calls)
          /\ events[n].attempt = n
          /\ calls[n].failed
          /\ events[n].cause = calls[n].exc[1]
    /\ pc \in {"ready", "attempt"} => Len(events) = attempt_number - 1
    /\ pc = "sleep" => Len(events) = attempt_number /\ Len(calls) = attempt_number
    /\ Finished => Len(events) = Len(calls) - 1

\* Two retries were logged and the third attempt then failed for good
C5_Witness ==
    /\ pc = "raised"
    /\ Len(calls) = 3
    /\ Len(events) = 2
    /\ events[2].attempt = 2
    /\ events[2].cause.msg = <<"Persistent", "error">>
    /\ RetryableFailure(calls[3])

-----------------------------------------------------------------------------
(* Properties of the upstream client (checked under Spec) *)

\* The retried call is over and the facade method has ended
FacadeDone == pc \in {"facade_done", "done"}

ThrewKind(o, kinds) == o.failed /\ \E k \in kinds : k \in Ancestors(o.exc[1].kind)

\* The attempt got a response whose status is not 2xx
HttpFailure(o) ==
    /\ o.failed
    /\ Has(o.exc[1].response)
    /\ o.exc[1].response[1].status_code \notin 200..299

\* The words a status code is written as
StatusWords == { ToString(t.status_code) : t \in ErrorResponses } \cup {"200"}
CarriesNoStatus(e) == \A i \in 1..Len(e.msg) : e.msg[i] \notin StatusWords

\* C6: _request retries only timeouts and HTTP status errors. An attempt that
\* fails in any other way (an undecodable body, a connection error) is the last
\* one: no sleep, no further HTTP request; and every attempt that was followed by
\* another one had failed with a timeout or an HTTP status error.
C6_RequestRetriesOnlyTimeoutAndStatus ==
    fn = "make_request" =>
        /\ \A i \in 1..Len(calls) :
              (calls[i].failed
               /\ ~ThrewKind(calls[i], {"TimeoutException", "HTTPStatusError"}))
              => /\ Len(calls) = i
                 /\ Len(sent) = i
                 /\ pc \in {"raised", "facade_done", "done"}
                 /\ Len(sleeps) = i - 1
        /\ \A i \in 1..(Len(sent) - 1) :
              ThrewKind(calls[i], {"TimeoutException", "HTTPStatusError"})

\* An undecodable body on the first of three allowed attempts ended the request
C6_Witness ==
    /\ fn = "make_request"
    /\ pc = "done"
    /\ cfg.max_attempts = 3
    /\ Len(sent) = 1
    /\ calls[1].failed
    /\ calls[1].exc[1].kind = "JSONDecodeError"
    /\ result[1].failed

\* C7 as stated: when every attempt fails with a transport failure, timeout or
\* connection error, the request is attempted max_attempts times and then fails
\* with an error carrying no status code.
C7_TransportFailuresUseAllAttempts ==
    (fn = "make_request" /\ FacadeDone
     /\ \A i \in 1..Len(calls) : ThrewKind(calls[i], {"TransportError"}))
    => /\ Len(sent) = cfg.max_attempts
       /\ ThrewKind(result[1], {"FileSearchAPIError"})
       /\ CarriesNoStatus(result[1].exc[1])

\* C7 (amended): when every attempt times out, the request is attempted
\* max_attempts times and only then fails; an attempt that fails with a
\* connection error is not retried, the request fails after it. Either way the
\* request raises FileSearchAPIError "Request failed: ..." with no status code.
C7_TimeoutsUseAllAttemptsConnectErrorsNone ==
    (fn = "make_request" /\ FacadeDone
     /\ \A i \in 1..Len(calls) : ThrewKind(calls[i], {"TransportError"}))
    => /\ (\A i \in 1..Len(calls) : ThrewKind(calls[i], {"TimeoutException"}))
            => Len(sent) = cfg.max_attempts
       /\ \A i \in 1..Len(calls) :
            ThrewKind(calls[i], {"ConnectError"}) => Len(sent) = i
       /\ ThrewKind(result[1], {"FileSearchAPIError"})
       /\ SubSeq(result[1].exc[1].msg, 1, 2) = <<"Request", "failed:">>
       /\ result[1].exc[1].msg = <<"Request", "failed:">> \o Last(calls).exc[1].msg
       /\ CarriesNoStatus(result[1].exc[1])

\* Three timeouts used up three attempts
C7_Witness ==
    /\ fn = "make_request"
    /\ pc = "done"
    /\ cfg.max_attempts = 3
    /\ Len(sent) = 3
    /\ \A i \in 1..3 : ThrewKind(calls[i], {"TimeoutException"})
    /\ ThrewKind(result[1], {"FileSearchAPIError"})

\* C8: when the request ends with an HTTP failure status, the budget is used up
\* and _request raises FileSearchAPIError "API error: <status> - <body>" with the
\* status and body of the last attempt; the facade method and the route handler
\* add no HTTP request to the max_attempts already sent.
C8_StatusErrorCarriesLastStatusAndBody ==
    (fn = "make_request" /\ FacadeDone /\ HttpFailure(Last(calls)))
    => /\ Len(calls) = cfg.max_attempts
       /\ Len(sent) = cfg.max_attempts
       /\ ThrewKind(result[1], {"FileSearchAPIError"})
       /\ result[1].exc[1].msg =
            <<"API", "error:", ToString(Last(calls).exc[1].response[1].status_code), "-">>
            \o Last(calls).exc[1].response[1].text
       /\ pc = "done" => reply[1].status_code = ErrorStatus(call.op)

\* A 500 and then two 404 used up three attempts of get_store
C8_Witness ==
    /\ call.op = "get_store"
    /\ pc = "done"
    /\ Len(sent) = 3
    /\ \A i \in 1..3 : HttpFailure(calls[i])
    /\ calls[1].exc[1].response[1].status_code = 500
    /\ calls[3].exc[1].response[1].status_code = 404
    /\ result[1].exc[1].msg = <<"API", "error:", "404", "-", "Not", "found">>

\* C9: a non-2xx response is retried whatever its status, 4xx included: when
\* every response is non-2xx the operation fails only after exactly max_attempts
\* HTTP requests, and no non-2xx response is ever the last one before that.
C9_EveryNon2xxIsRetried ==
    fn = "make_request" =>
        /\ (FacadeDone /\ \A i \in 1..Len(calls) : HttpFailure(calls[i]))
              => (Len(sent) = cfg.max_attempts /\ result[1].failed)
        /\ \A i \in 1..Len(calls) :
              (HttpFailure(calls[i]) /\ i < cfg.max_attempts)
              => (Len(calls) > i \/ pc \in {"sleep", "ready", "attempt"})

\* get_store answered 404 three times: three requests, then the failure
C9_Witness ==
    /\ call.op = "get_store"
    /\ pc = "done"
    /\ cfg.max_attempts = 3
    /\ Len(sent) = 3
    /\ \A i \in 1..3 : HttpFailure(calls[i])
    /\ \A i \in 1..3 : calls[i].exc[1].response[1].status_code = 404
    /\ result[1].failed

\* C10 as stated: every HTTP request of the operations other than the resumable
\* upload, list_models and search_with_gemini included, is issued by _request.
C10_EveryCallThroughRequest ==
    \A i \in 1..Len(sent) : sent[i].via = "_request"

\* C10 (amended): the HTTP requests of create/list/get/delete store,
\* list/get/delete document, import file and get operation are all issued by
\* _request, with its headers and timeout; list_models and search_with_gemini
\* issue their request themselves, outside _request (list_models without the
\* headers of _request, search_with_gemini with twice its timeout).
C10_CrudThroughRequestModelsAndSearchApart ==
    \A i \in 1..Len(sent) :
        /\ call.op \in RequestOps
              => /\ sent[i].via = "_request"
                 /\ sent[i].headers = get_headers(settings)
                 /\ sent[i].timeout = settings.api_timeout
        /\ call.op = "list_models"
              => /\ sent[i].via = "list_models"
                 /\ sent[i].headers # get_headers(settings)
        /\ call.op = "search_with_gemini"
              => /\ sent[i].via = "search_with_gemini"
                 /\ sent[i].timeout = 2 * settings.api_timeout

\* import_file sent its request through _request
C10_Witness ==
    /\ call.op = "import_file"
    /\ pc = "done"
    /\ Len(sent) = 1
    /\ sent[1].via = "_request"
    /\ ~result[1].failed

-----------------------------------------------------------------------------
(* Properties of the upload *)

\* The requests task id has sent, and what an upstream answer was
Sent(id) == task[id].sent
Got(id) == task[id].got
Answered(id, i) == i <= Len(Got(id))
SuccessAnswer(t) == t.type = "response" /\ t.status_code >= 200 /\ t.status_code <= 299
RetryableAnswer(t) == t.type = "timeout" \/ (t.type = "response" /\ ~SuccessAnswer(t))
Starts(id) == {i \in 1..Len(Sent(id)) : IsStart(Sent(id)[i])}
Finalizes(id) == {i \in 1..Len(Sent(id)) : IsFinalize(Sent(id)[i])}
Imports(id) == {i \in 1..Len(Sent(id)) : IsImport(Sent(id)[i])}
HeaderNames(r) == {h[1] : h \in r.headers}
ParamNames(r) == {p[1] : p \in r.params}

\* C11 as stated: every HTTP request sent upstream (the calls through _request,
\* both phases of the resumable upload, the model listing, the search call)
\* carries the configured credential in the X-Goog-Api-Key header.
C11_EveryRequestCarriesKeyHeader ==
    /\ \A i \in 1..Len(sent) : <<"X-Goog-Api-Key", settings.google_api_key>> \in sent[i].headers
    /\ \A id \in DOMAIN task : \A i \in 1..Len(Sent(id)) :
          <<"X-Goog-Api-Key", settings.google_api_key>> \in Sent(id)[i].headers

\* C11, amended: the requests made through _request, the start request of the
\* upload and the search request carry the credential in the X-Goog-Api-Key
\* header; the model listing carries it as the query parameter key and has no
\* header; the upload+finalize request carries no credential at all.
KeyWhereTheCodePutsIt(r) ==
    IF r.via = "list_models"
      THEN r.headers = {} /\ r.params = {<<"key", settings.google_api_key>>}
    ELSE IF IsFinalize(r)
      THEN "X-Goog-Api-Key" \notin HeaderNames(r) /\ "key" \notin ParamNames(r)
    ELSE /\ <<"X-Goog-Api-Key", settings.google_api_key>> \in r.headers
         /\ "key" \notin ParamNames(r)
C11_KeyHeaderExceptModelsAndFinalize ==
    /\ \A i \in 1..Len(sent) : KeyWhereTheCodePutsIt(sent[i])
    /\ \A id \in DOMAIN task : \A i \in 1..Len(Sent(id)) : KeyWhereTheCodePutsIt(Sent(id)[i])

\* An upload has sent its start, upload+finalize and import requests
C11_Witness ==
    /\ Len(task) = 1
    /\ Len(Sent(1)) = 3
    /\ IsStart(Sent(1)[1]) /\ IsFinalize(Sent(1)[2]) /\ IsImport(Sent(1)[3])
    /\ <<"X-Goog-Api-Key", "test_api_key">> \in Sent(1)[3].headers

\* C12 as stated: the two phases are retried independently; a retryable failure
\* of one phase retries that phase only (the request that follows the failed one
\* is of the same phase).
C12_PhasesRetriedIndependently ==
    \A id \in DOMAIN task : \A i \in 1..(Len(Sent(id)) - 1) :
        (RetryableAnswer(Got(id)[i]) /\ (IsStart(Sent(id)[i]) \/ IsFinalize(Sent(id)[i]))) =>
            (IsStart(Sent(id)[i]) <=> IsStart(Sent(id)[i + 1]))

\* C12, amended: the two phases are one retried unit with one attempt budget. A
\* retryable failure of either phase is followed, if by anything, by a new start
\* request; there are at most maxAttempts start requests and never more
\* upload+finalize requests than start requests; the retryable failures of both
\* phases together number at most maxAttempts, and the maxAttempts-th ends the
\* flow in an error.
UploadFailures(id) ==
    {i \in (Starts(id) \cup Finalizes(id)) : Answered(id, i) /\ RetryableAnswer(Got(id)[i])}
C12_PhasesShareOneAttemptBudget ==
    \A id \in DOMAIN task :
        /\ \A i \in UploadFailures(id) : i < Len(Sent(id)) => IsStart(Sent(id)[i + 1])
        /\ Cardinality(Starts(id)) <= settings.api_max_retries
        /\ Cardinality(Finalizes(id)) <= Cardinality(Starts(id))
        /\ Cardinality(UploadFailures(id)) <= settings.api_max_retries
        /\ Cardinality(UploadFailures(id)) = settings.api_max_retries =>
              /\ task[id].pc = "done"
              /\ task[id].result[1].failed
              /\ Imports(id) = {}

\* With two attempts: the upload+finalize request failed, the second attempt's
\* start request failed, and the flow ended without a second try of either
C12_Witness ==
    /\ Len(task) = 1
    /\ settings.api_max_retries = 2
    /\ Len(Sent(1)) = 3
    /\ IsStart(Sent(1)[1]) /\ IsFinalize(Sent(1)[2]) /\ IsStart(Sent(1)[3])
    /\ Len(Got(1)) = 3
    /\ RetryableAnswer(Got(1)[2]) /\ RetryableAnswer(Got(1)[3])
    /\ task[1].pc = "done"

\* C13: after the upload+finalize request fails with a retryable error, the next
\* request of the flow is a new start request; each upload+finalize request goes
\* to the session URI of the start response just before it, and no session URI
\* gets more than one upload+finalize request.
C13_FailedFinalizeRestartsFromStart ==
    \A id \in DOMAIN task :
        /\ \A i \in Finalizes(id) :
              /\ i > 1
              /\ IsStart(Sent(id)[i - 1])
              /\ Got(id)[i - 1].upload_url = <<Sent(id)[i].url>>
              /\ (Answered(id, i) /\ RetryableAnswer(Got(id)[i]) /\ i < Len(Sent(id))) =>
                    IsStart(Sent(id)[i + 1])
        /\ \A i, j \in Finalizes(id) : Sent(id)[i].url = Sent(id)[j].url => i = j

\* The upload+finalize request failed with 503, and the flow has sent a new start
\* request and a second upload+finalize request, to another session URI
C13_Witness ==
    /\ Len(task) = 1
    /\ Len(Sent(1)) = 4
    /\ IsFinalize(Sent(1)[2]) /\ Got(1)[2].status_code = 503
    /\ IsStart(Sent(1)[3]) /\ IsFinalize(Sent(1)[4])
    /\ Sent(1)[4].url # Sent(1)[2].url

\* C14: when the start request gets a success response without the session URI
\* header (absent or empty), the flow fails there: no upload+finalize request is
\* sent, the start request is not sent again, and the operation ends in the
\* service's error saying that no upload URL was returned.
LacksSessionUri(t) == SuccessAnswer(t) /\ (t.upload_url = <<>> \/ t.upload_url = << <<>> >>)
C14_MissingSessionUriFailsAtOnce ==
    \A id \in DOMAIN task : \A i \in Starts(id) :
        (Answered(id, i) /\ LacksSessionUri(Got(id)[i])) =>
            /\ Len(Sent(id)) = i
            /\ task[id].pc = "done"
            /\ task[id].result[1].failed
            /\ task[id].result[1].exc[1].kind = "FileSearchAPIError"
            /\ task[id].result[1].exc[1].msg =
                  <<"File", "upload", "failed:", "No", "upload", "URL", "returned", "from",
                    "start", "request">>
            /\ task[id].reply[1].status_code = 500

\* The first start request was answered 200 without X-Goog-Upload-URL while two
\* more attempts were allowed, and the flow is over after that one request
C14_Witness ==
    /\ Len(task) = 1
    /\ settings.api_max_retries = 3
    /\ Len(Sent(1)) = 1
    /\ Len(Got(1)) = 1
    /\ Got(1)[1].status_code = 200 /\ Got(1)[1].upload_url = <<>>
    /\ task[1].pc = "done"

\* C15: upload-to-store returns an operation record only when the upload
\* succeeded, its file resource had a name and the import was accepted. An import
\* request is sent only after an upload+finalize request that was answered with
\* a named file resource, and carries that name; and when the operation is over,
\* it returned an operation exactly when its last request was an import request
\* answered with an operation, and otherwise it failed and answered no record.
NamedFile(t) ==
    /\ SuccessAnswer(t)
    /\ Has(t.body.json)
    /\ t.body.json[1].isdict
    /\ \/ Has(t.body.json[1].file) /\ Has(t.body.json[1].file[1].name)
       \/ ~Has(t.body.json[1].file) /\ Has(t.body.json[1].name)
AcceptedImport(t) == SuccessAnswer(t) /\ Has(t.body.json) /\ Has(t.body.json[1].name)
C15_OperationOnlyAfterUploadAndImport ==
    \A id \in DOMAIN task :
        /\ \A i \in Imports(id) :
              \E j \in Finalizes(id) :
                  /\ j < i
                  /\ NamedFile(Got(id)[j])
                  /\ \A k \in (j + 1)..i : IsImport(Sent(id)[k])
                  /\ Sent(id)[i].json = {<<"fileName", FileName(id)>>}
        /\ (task[id].pc = "done" /\ Has(task[id].result)) =>
              LET n == Len(Sent(id))
                  accepted == /\ n \in Imports(id)
                              /\ AcceptedImport(Got(id)[n])
              IN /\ Len(Got(id)) = n
                 /\ accepted <=> ~task[id].result[1].failed
                 /\ accepted => /\ task[id].reply[1].status_code = 202
                                /\ task[id].reply[1].content[1].type = "Operation"
                 /\ ~accepted => /\ task[id].reply[1].status_code = 500
                                 /\ task[id].reply[1].content = <<>>

\* The upload and the import were accepted and the route answered 202
C15_Witness ==
    /\ Len(task) = 1
    /\ task[1].pc = "done"
    /\ task[1].reply[1].status_code = 202
    /\ Len(Sent(1)) = 3
    /\ IsFinalize(Sent(1)[2]) /\ IsImport(Sent(1)[3])

\* C16: once the import request has been sent, the operation sends nothing but
\* that import request again: no DELETE request, no start or upload+finalize
\* request. The import has an attempt budget of its own: whatever the upload
\* took, it is sent at most maxAttempts times, and when every one of them fails
\* with a retryable error it is sent exactly maxAttempts times and the operation
\* then fails.
C16_FailedImportIsOnlyRetried ==
    \A id \in DOMAIN task :
        /\ \A i \in 1..Len(Sent(id)) : Sent(id)[i].method # "DELETE"
        /\ \A i \in Imports(id) : \A k \in i..Len(Sent(id)) : Sent(id)[k] = Sent(id)[i]
        /\ Cardinality(Imports(id)) <= settings.api_max_retries
        /\ (/\ task[id].pc = "done"
            /\ Imports(id) # {}
            /\ \A i \in Imports(id) : RetryableAnswer(Got(id)[i])) =>
              /\ Cardinality(Imports(id)) = settings.api_max_retries
              /\ task[id].result[1].failed
              /\ task[id].reply[1].status_code = 500

\* The upload needed two attempts, then the import failed on each of its own two
\* attempts and the operation failed: five requests, the last two the import
C16_Witness ==
    /\ Len(task) = 1
    /\ settings.api_max_retries = 2
    /\ task[1].pc = "done"
    /\ Len(Sent(1)) = 5
    /\ IsStart(Sent(1)[2]) /\ IsFinalize(Sent(1)[3])
    /\ IsImport(Sent(1)[4]) /\ IsImport(Sent(1)[5])
    /\ task[1].result[1].failed

\* C17: two upload requests served together, to different stores, with the same
\* filename or not, do not interfere. Every request each sends is its own: the
\* start request declares the length of its own bytes, the upload+finalize
\* request carries exactly the bytes its caller sent, the import request names
\* its own uploaded file and its own store. And neither fails because of the
\* other: a request that ends in an error was itself answered an error by
\* upstream on its last request.
OwnRequest(id, r) ==
    IF IsStart(r)
      THEN <<"X-Goog-Upload-Header-Content-Length", ToString(Len(task[id].content))>>
              \in r.headers
    ELSE IF IsFinalize(r) THEN r.content = <<task[id].content>>
    ELSE /\ r.json = {<<"fileName", FileName(id)>>}
         /\ r.url = <<settings.api_base_url, "/v1beta/">> \o task[id].store_name
                        \o <<":importFile">>
C17_ConcurrentUploadsDoNotInterfere ==
    Len(task) = 2 =>
        \A id \in DOMAIN task :
            /\ \A i \in 1..Len(Sent(id)) : OwnRequest(id, Sent(id)[i])
            /\ task[id].pc = "done" =>
                  \/ task[id].reply[1].status_code = 202
                  \/ /\ Got(id) # <<>>
                     /\ ~SuccessAnswer(Got(id)[Len(Got(id))])

\* Two uploads of files with the same filename are both waiting for the answer
\* to their upload+finalize request, the second having overwritten the
\* temporary file the first one wrote
C17_Witness ==
    /\ Len(task) = 2
    /\ task[1].filename = task[2].filename
    /\ task[1].pc = "finalize_sent" /\ task[2].pc = "finalize_sent"
    /\ disk[temp_file(task[1].filename)] = task[2].content
    /\ task[1].content # task[2].content
-----------------------------------------------------------------------------
(* Properties of the list operations *)

\* The call is over for its caller: the route has answered, or the facade method
\* has ended for a caller of the service
CallOver ==
    \/ pc = "done"
    \/ pc = "facade_done" /\ call.entry = "facade"

\* C18: for list stores and list documents, every request sent upstream has
\* pageSize 20 when the page size asked for is above 20 and the page size asked
\* for, unchanged, when it is at most 20; the pageSize sent never exceeds 20.
C18_PageSizeClampedTo20 ==
    call.op \in {"list_stores", "list_documents"} =>
        \A i \in 1..Len(sent) :
            \E n \in 0..20 :
                /\ sent[i].params = {<<"pageSize", n>>}
                /\ n = IF call.page_size > 20 THEN 20 ELSE call.page_size

\* list_stores(page_size=50) sent pageSize 20, and list_documents(page_size=1)
\* would send 1: here the clamped request has gone out
C18_Witness ==
    /\ call.op = "list_stores"
    /\ call.page_size = 50
    /\ Len(sent) >= 1
    /\ sent[1].params = {<<"pageSize", 20>>}

\* C19 as stated: a list request with a page size above 20 never ends in an error
\* because of the page size; it reaches upstream with pageSize 20.
C19_LargePageSizeNeverAnError ==
    (call.op \in {"list_stores", "list_documents"} /\ call.page_size > 20 /\ CallOver) =>
        /\ Len(sent) >= 1
        /\ \A i \in 1..Len(sent) : sent[i].params = {<<"pageSize", 20>>}

\* C19, amended: a call of the facade's list method with a page size above 20
\* reaches upstream with pageSize 20 and fails only if the upstream call failed;
\* the same request made to the HTTP route is answered 422 by the validation of
\* page_size (1..20), before the facade is called and with nothing sent upstream.
C19_FacadeClampsRouteRejects ==
    (call.op \in {"list_stores", "list_documents"} /\ call.page_size > 20 /\ CallOver) =>
        /\ call.entry = "facade" =>
              /\ Len(sent) >= 1
              /\ \A i \in 1..Len(sent) : sent[i].params = {<<"pageSize", 20>>}
              /\ result[1].failed => final[1].failed
        /\ call.entry = "route" =>
              /\ sent = <<>>
              /\ result = <<>>
              /\ reply[1].status_code = 422

\* GET /api/stores?page_size=21 was answered 422
C19_Witness ==
    /\ call.op = "list_stores"
    /\ call.entry = "route"
    /\ call.page_size = 21
    /\ pc = "done"
    /\ reply[1].status_code = 422
    /\ sent = <<>>
-----------------------------------------------------------------------------
(* Properties of the search normalization *)

\* The search call returned response JSON r to the route, which has answered
SearchAnswered == call.op = "search_with_gemini" /\ pc = "done" /\ ~result[1].failed
ZeroCandidates(r) == ~Has(r.candidates) \/ Len(r.candidates[1]) = 0
NoAnswerFound ==
    [answer |-> <<"No", " ", "answer", " ", "found.">>, grounding_chunks |-> <<>>,
     sources |-> <<>>]

\* C20 as stated: for every response with zero candidates (candidates absent or
\* an empty list) the normalization does not raise and the result is
\* "No answer found." with no grounding chunks and no sources.
C20_ZeroCandidatesNeverRaise ==
    (SearchAnswered /\ ZeroCandidates(result[1].value[1])) =>
        /\ reply[1].status_code = 200
        /\ reply[1].content = <<NoAnswerFound>>

\* C20, amended: a response with zero candidates is normalized to
\* "No answer found." with no grounding chunks and no sources when it is a JSON
\* object with no error member and no block reason; when it is not an object, or
\* has an error member or a block reason, the normalization raises and the
\* search is answered with an error status, zero candidates or not.
C20_ZeroCandidatesRaiseOnlyOnErrorOrBlock ==
    (SearchAnswered /\ ZeroCandidates(result[1].value[1])) =>
        LET r == result[1].value[1]
            raises == \/ ~r.isdict
                      \/ Has(r.error)
                      \/ Has(r.promptFeedback) /\ Has(r.promptFeedback[1].blockReason)
        IN /\ ~raises => (reply[1].status_code = 200 /\ reply[1].content = <<NoAnswerFound>>)
           /\ raises => (reply[1].status_code \in {429, 500} /\ reply[1].content = <<>>)

\* A response with an empty candidates list and one with no candidates member
\* were both possible; here the empty list was answered "No answer found."
C20_Witness ==
    /\ SearchAnswered
    /\ result[1].value[1] = NoCandidatesJson
    /\ reply[1].content = <<NoAnswerFound>>
-----------------------------------------------------------------------------
(* Properties of the search route: what it makes of the generateContent       *)
(* response, and the status it reports a failure with                         *)

\* The search is over: the response JSON the facade returned, whether the route
\* answered 200, and the SearchResult it answered with
SearchOver == call.op = "search_with_gemini" /\ pc = "done"
Response == result[1].value[1]
Structured == SearchAnswered /\ Response.isdict
SearchOk == SearchAnswered /\ reply[1].status_code = 200
Answer == reply[1].content[1]
BlockReasonOf(r) ==
    IF Has(r.promptFeedback) THEN r.promptFeedback[1].blockReason ELSE <<>>
HasCandidate(r) == Has(r.candidates) /\ Len(r.candidates[1]) > 0

\* C21: a JSON object with no error member and no block reason, whose candidates
\* are absent or an empty list, is answered 200 with "No answer found.", no
\* grounding chunks and no sources.
C21_NoCandidatesIsNoAnswerFound ==
    (Structured /\ ~Has(Response.error) /\ BlockReasonOf(Response) = <<>>
        /\ ~HasCandidate(Response)) =>
        /\ reply[1].status_code = 200
        /\ reply[1].detail = <<>>
        /\ Answer.answer = <<"No", " ", "answer", " ", "found.">>
        /\ Answer.grounding_chunks = <<>>
        /\ Answer.sources = <<>>

\* A response with a prompt feedback that has no block reason and no candidates
\* member was answered "No answer found."
C21_Witness ==
    /\ Structured
    /\ Response = SearchJson(TRUE, <<>>, << [blockReason |-> <<>>] >>, <<>>)
    /\ reply[1].status_code = 200
    /\ Answer.sources = <<>>

\* C22: a JSON object with an error member raises FileSearchAPIError whose message
\* is "Gemini API error:" and error.message, whatever candidates and prompt
\* feedback it also has: the error check precedes the block check and the
\* extraction, and the route answers with an error status and no result.
C22_ErrorMemberRaisesItsMessage ==
    (Structured /\ Has(Response.error)) =>
        LET n == normalize(Response) IN
        /\ n.failed
        /\ n.exc[1].kind = "FileSearchAPIError"
        /\ Has(Response.error[1].message) =>
              /\ n.exc[1].msg = <<"Gemini", "API", "error:">> \o Response.error[1].message[1]
              /\ reply[1].detail = n.exc[1].msg
        /\ reply[1].status_code \in {429, 500}
        /\ reply[1].content = <<>>

\* A response with the error message "boom", a block reason and a candidate was
\* answered 500 "Gemini API error: boom"
C22_Witness ==
    /\ Structured
    /\ Has(Response.error) /\ Response.error[1].message = << <<"boom">> >>
    /\ BlockReasonOf(Response) = <<"SAFETY">>
    /\ HasCandidate(Response)
    /\ reply[1].status_code = 500
    /\ reply[1].detail = <<"Gemini", "API", "error:", "boom">>

\* C23: a JSON object with no error member whose prompt feedback has a block
\* reason raises ValueError "Search query was blocked:" and the reason, with or
\* without candidates; the route answers 500 with that message and no result.
C23_BlockReasonRaisesContentBlocked ==
    (Structured /\ ~Has(Response.error) /\ BlockReasonOf(Response) # <<>>) =>
        LET n == normalize(Response) IN
        /\ n.failed
        /\ n.exc[1].kind = "ValueError"
        /\ reply[1].status_code = 500
        /\ reply[1].detail = <<"Search", "query", "was", "blocked:">> \o BlockReasonOf(Response)
        /\ reply[1].content = <<>>

\* A response blocked for SAFETY that also has a candidate was answered 500
C23_Witness ==
    /\ Structured
    /\ ~Has(Response.error)
    /\ BlockReasonOf(Response) = <<"SAFETY">>
    /\ HasCandidate(Response)
    /\ reply[1].detail = <<"Search", "query", "was", "blocked:", "SAFETY">>

\* The first candidate's parts, the texts of those that have one, in order, and
\* its grounding chunks
FirstParts(r) ==
    LET c == r.candidates[1][1] IN
    IF Has(c.content) /\ Has(c.content[1].parts) THEN c.content[1].parts[1] ELSE <<>>
RECURSIVE TextsOf(_)
TextsOf(parts) ==
    IF parts = <<>> THEN <<>>
    ELSE (IF Has(Head(parts).text) THEN <<Head(parts).text[1]>> ELSE <<>>)
             \o TextsOf(Tail(parts))
RECURSIVE Flat(_)
Flat(texts) == IF texts = <<>> THEN <<>> ELSE Head(texts) \o Flat(Tail(texts))
FirstChunks(r) ==
    LET c == r.candidates[1][1] IN
    IF Has(c.groundingMetadata) /\ Has(c.groundingMetadata[1].groundingChunks)
      THEN c.groundingMetadata[1].groundingChunks[1]
    ELSE <<>>

\* answer is texts joined by single spaces: without the spaces it is the texts
\* one after the other, and there is one space between two texts and nowhere else
JoinedBySpaces(answer, texts) ==
    /\ SelectSeq(answer, LAMBDA w : w # " ") = Flat(texts)
    /\ Len(answer) = Len(Flat(texts)) + (IF texts = <<>> THEN 0 ELSE Len(texts) - 1)
    /\ \A i \in 1..Len(answer) :
          answer[i] = " " => /\ i > 1 /\ i < Len(answer)
                             /\ answer[i - 1] # " " /\ answer[i + 1] # " "

\* C24 as stated: with at least one candidate, the answer is the texts of the
\* first candidate's parts that have one, in order, joined by single spaces.
C24_AnswerIsJoinedTexts ==
    (SearchOk /\ HasCandidate(Response)) =>
        JoinedBySpaces(Answer.answer, TextsOf(FirstParts(Response)))

\* C24, amended: with at least one candidate, the answer is the texts of the
\* first candidate's parts that have one, in order, joined by single spaces,
\* unless that is the empty string (no part has a text, or the only text is
\* empty): then the answer is "No answer found.". Parts without a text and later
\* candidates contribute nothing.
C24_AnswerIsJoinedTextsOrNoAnswerFound ==
    (SearchOk /\ HasCandidate(Response)) =>
        LET texts == TextsOf(FirstParts(Response)) IN
        IF Flat(texts) = <<>> /\ Len(texts) <= 1
          THEN Answer.answer = <<"No", " ", "answer", " ", "found.">>
        ELSE JoinedBySpaces(Answer.answer, texts)

\* Two candidates, the first with the parts Paris, (no text), France: the answer
\* is "Paris France"
C24_Witness ==
    /\ SearchOk
    /\ HasCandidate(Response) /\ Len(Response.candidates[1]) = 2
    /\ Len(FirstParts(Response)) = 3
    /\ Answer.answer = <<"Paris", " ", "France">>

\* What a grounding chunk gives to sources: the URI of its retrieved context,
\* else the title, else nothing
Contribution(chunk) ==
    IF ~Has(chunk.retrievedContext) THEN {}
    ELSE IF Has(chunk.retrievedContext[1].uri) THEN {chunk.retrievedContext[1].uri[1]}
    ELSE IF Has(chunk.retrievedContext[1].title) THEN {chunk.retrievedContext[1].title[1]}
    ELSE {}
FirstSeen(chunks, s) ==
    CHOOSE k \in 1..Len(chunks) :
        /\ s \in Contribution(chunks[k])
        /\ \A j \in 1..(k - 1) : s \notin Contribution(chunks[j])

\* C25: in a successful result no source occurs twice, and the sources are in the
\* order in which each first occurs among the grounding chunks.
C25_SourcesUniqueInFirstSeenOrder ==
    SearchOk =>
        LET sources == Answer.sources
            chunks == Answer.grounding_chunks IN
        /\ \A i, j \in 1..Len(sources) : sources[i] = sources[j] => i = j
        /\ \A i, j \in 1..Len(sources) :
              i < j => FirstSeen(chunks, sources[i]) < FirstSeen(chunks, sources[j])

\* Chunks doc1, t2, doc1: the sources are doc1 then t2
C25_Witness ==
    /\ SearchOk
    /\ Len(Answer.grounding_chunks) = 4
    /\ Contribution(Answer.grounding_chunks[1]) = Contribution(Answer.grounding_chunks[3])
    /\ Answer.sources = <<"doc1", "t2">>

HasMarker(msg) ==
    \/ \E i \in 1..Len(msg) : msg[i] \in {"429", "quota", "Quota"}
    \/ \E i \in 1..(Len(msg) - 1) : msg[i] \in {"rate", "Rate"} /\ msg[i + 1] \in {"limit", "Limit"}

\* The search failed with FileSearchAPIError: the facade raised it, or the
\* response has an error member
UpstreamError ==
    \/ result[1].failed /\ result[1].exc[1].kind = "FileSearchAPIError"
    \/ ~result[1].failed /\ Response.isdict /\ Has(Response.error)
SearchFailure ==
    \/ result[1].failed
    \/ ~Response.isdict
    \/ Has(Response.error)
    \/ BlockReasonOf(Response) # <<>>

\* C27: a failed search is answered 429 when it failed with FileSearchAPIError
\* and the message has a marker, and 500 otherwise; it is never answered with a
\* result.
C27_RateLimitMarkersGive429Else500 ==
    (SearchOver /\ SearchFailure) =>
        /\ reply[1].content = <<>>
        /\ reply[1].status_code =
              IF UpstreamError /\ HasMarker(reply[1].detail) THEN 429 ELSE 500

\* Upstream answered 500 "Quota exceeded": the search is answered 429
C27_Witness ==
    /\ SearchOver
    /\ result[1].failed
    /\ Len(got) > 0 /\ got[Len(got)].type = "response" /\ got[Len(got)].status_code = 500
    /\ reply[1].status_code = 429

-----------------------------------------------------------------------------
(* Properties of the status a failure is reported with *)

GetOps == {"get_store", "get_document", "get_operation"}
LastGot == got[Len(got)]

\* C28: get store, get document and get operation answer 404 only when upstream
\* answered 404: a failure that ended with another status, a time-out or a
\* refused connection is not answered 404.
C28_NotFoundOnlyFromUpstream404 ==
    (pc = "done" /\ call.op \in GetOps /\ reply[1].status_code = 404) =>
        /\ Len(got) > 0
        /\ LastGot.type = "response"
        /\ LastGot.status_code = 404

\* An upload's extension is not allowed (whatever its letter case), its content
\* is larger than the maximum, and its temporary file is on the disk
Disallowed(tk) ==
    /\ Has(tk.filename)
    /\ \A e \in settings.allowed_extensions :
          /\ tk.filename[1].suffix # e
          /\ <<tk.filename[1].suffix, e>> # <<".TXT", ".txt">>
Oversized(tk) == Len(tk.content) > settings.max_upload_size
OnDisk(tk) ==
    (IF tk.filename = <<>> THEN Filename("upload", "") ELSE tk.filename[1]) \in DOMAIN disk

\* C29: an upload with a disallowed extension is answered 400 and one with
\* oversized content 413, the extension deciding when both apply; at no moment
\* has such an upload sent a request upstream or a temporary file on the disk.
C29_RejectedUploadsSendAndWriteNothing ==
    \A id \in DOMAIN task :
        LET tk == task[id] IN
        (Disallowed(tk) \/ Oversized(tk)) =>
            /\ tk.sent = <<>>
            /\ ~OnDisk(tk)
            /\ tk.result = <<>>
            /\ tk.pc = "done" =>
                  tk.reply[1].status_code = (IF Disallowed(tk) THEN 400 ELSE 413)

\* a.exe with oversized content was answered 400
C29_Witness ==
    \E id \in DOMAIN task :
        /\ Disallowed(task[id]) /\ Oversized(task[id])
        /\ task[id].pc = "done"
        /\ task[id].reply[1].status_code = 400

\* A.TXT with oversized content was answered 413
C29_WitnessSize ==
    \E id \in DOMAIN task :
        /\ ~Disallowed(task[id]) /\ Oversized(task[id])
        /\ task[id].filename # <<>> /\ task[id].filename[1].suffix = ".TXT"
        /\ task[id].pc = "done"
        /\ task[id].reply[1].status_code = 413

\* The first attempt of _request got a successful response with no content
EmptySuccessFirst ==
    /\ fn = "make_request"
    /\ Len(got) > 0
    /\ got[1].type = "response"
    /\ got[1].status_code \in 200..299
    /\ got[1].body.text = <<>>

\* C30: when upstream answers the first attempt of _request with a successful
\* response that has no content, make_request returns the empty object: there is
\* no second attempt and no sleep, and delete store and delete document succeed
\* (the routes answer 204).
C30_EmptyBodyIsEmptyObjectAtOnce ==
    EmptySuccessFirst =>
        /\ Len(got) = 1
        /\ attempt_number = 1
        /\ sleeps = <<>>
        /\ final = <<Returned(EmptyJson)>>
        /\ pc \in {"returned", "facade_done", "done"}
        /\ (call.op \in {"delete_store", "delete_document"} /\ result # <<>>) =>
              ~result[1].failed
        /\ (call.op \in {"delete_store", "delete_document"} /\ pc = "done") =>
              reply[1].status_code = 204

\* Delete store got 200 with no content and was answered 204
C30_Witness ==
    /\ EmptySuccessFirst
    /\ call.op = "delete_store"
    /\ pc = "done"
    /\ Len(sent) = 1
    /\ reply[1].status_code = 204
-----------------------------------------------------------------------------
(* Properties of a whole call: the order of its attempts, the requests it     *)
(* sends and how it ends                                                      *)

\* The requests of the call that upstream has not answered yet
InFlight == Len(sent) - Len(got)

\* C31: the attempts of a retried call follow one another: at most one request
\* is unanswered at any time; while attempt n is in flight the n-1 attempts
\* before it have all ended with an error and n-1 sleeps have been slept; while
\* the call sleeps nothing is in flight and the sleep belongs to the attempt
\* that just failed.
C31_AttemptsAreSequential ==
    /\ fn \notin {"none", "fn"} =>
          /\ InFlight \in {0, 1}
          /\ InFlight = 1 <=> pc = "attempt"
          /\ pc = "attempt" =>
                /\ Len(sent) = attempt_number
                /\ Len(calls) = attempt_number - 1
                /\ Len(sleeps) = attempt_number - 1
                /\ \A i \in 1..Len(calls) : calls[i].failed
          /\ pc = "sleep" =>
                /\ Len(calls) = attempt_number
                /\ Len(sleeps) = attempt_number
                /\ calls[attempt_number].failed
    /\ \A id \in DOMAIN task : Len(task[id].sent) - Len(task[id].got) \in {0, 1}

\* The third attempt is in flight after two failures and two sleeps
C31_Witness ==
    /\ fn = "make_request"
    /\ pc = "attempt"
    /\ attempt_number = 3
    /\ InFlight = 1
    /\ Len(sleeps) = 2
    /\ calls[1].failed /\ calls[2].failed

\* Upstream accepted the import: a successful response that names the operation
NamesOperation(t) ==
    /\ t.type = "response" /\ t.status_code \in 200..299
    /\ t.body.json # <<>> /\ t.body.json[1].name # <<>>
OnlyFileName(r, file_name) == r.json = {<<"fileName", file_name>>}

\* C32: whatever chunking configuration import file or an upload is given (none,
\* the defaults, other values), the body of the import request is the file name
\* alone, and the call succeeds exactly when upstream's last answer accepts the
\* import: the configuration changes neither the request nor the outcome.
C32_ChunkingConfigChangesNothing ==
    /\ call.op = "import_file" =>
          /\ \A i \in 1..Len(sent) : OnlyFileName(sent[i], call.file_name)
          /\ result # <<>> => (~result[1].failed <=> NamesOperation(got[Len(got)]))
          /\ pc = "done" => (reply[1].status_code = 202 <=> NamesOperation(got[Len(got)]))
    /\ \A id \in DOMAIN task :
          LET tk == task[id] IN
          /\ \A i \in 1..Len(tk.sent) :
                IsImport(tk.sent[i]) => OnlyFileName(tk.sent[i], tk.file_name[1])
          /\ (tk.pc = "done" /\ tk.result # <<>>) =>
                (tk.reply[1].status_code = 202 <=>
                    (Len(tk.sent) > 0 /\ IsImport(tk.sent[Len(tk.sent)])
                        /\ NamesOperation(tk.got[Len(tk.got)])))

\* An upload given a configuration other than the defaults was imported and
\* answered 202
C32_Witness ==
    \E id \in DOMAIN task :
        /\ task[id].chunking_config = <<ChunkingConfig(512, 50)>>
        /\ task[id].pc = "done"
        /\ Len(task[id].sent) = 3
        /\ IsImport(task[id].sent[3])
        /\ task[id].reply[1].status_code = 202

\* Import file given a configuration other than the defaults was answered 202
C32_WitnessImport ==
    /\ call.op = "import_file"
    /\ call.chunking_config = <<ChunkingConfig(512, 50)>>
    /\ pc = "done"
    /\ reply[1].status_code = 202

\* The operation record made of upstream's answer t: its name, and done as
\* upstream gave it, false when it gave none
Snapshot(t) ==
    [type |-> "Operation", name |-> t.body.json[1].name[1],
     done |-> IF t.body.json[1].done = <<>> THEN FALSE ELSE t.body.json[1].done[1]]

\* C33: nothing is polled. Get operation and import file end with the first
\* answer that names the operation and return its snapshot, done or not (done is
\* false when upstream gave none), having sent one request per attempt; an
\* upload sends POST requests only and ends, answered 202 with the operation, as
\* soon as its import request is accepted.
C33_OperationSnapshotNeverPolled ==
    /\ call.op \in {"get_operation", "import_file"} =>
          \A i \in 1..Len(got) :
              NamesOperation(got[i]) =>
                  /\ i = Len(got) /\ Len(sent) = i
                  /\ pc \in {"returned", "facade_done", "done"}
                  /\ result # <<>> => result[1] = Returned(Snapshot(got[i]))
                  /\ pc = "done" =>
                        /\ reply[1].status_code = (IF call.op = "import_file" THEN 202 ELSE 200)
                        /\ reply[1].content = <<Snapshot(got[i])>>
    /\ \A id \in DOMAIN task :
          LET tk == task[id] IN
          /\ \A i \in 1..Len(tk.sent) : tk.sent[i].method = "POST"
          /\ \A i \in 1..Len(tk.got) :
                (IsImport(tk.sent[i]) /\ NamesOperation(tk.got[i])) =>
                    /\ i = Len(tk.sent)
                    /\ tk.pc = "done"
                    /\ tk.reply[1].status_code = 202
                    /\ tk.reply[1].content = <<Snapshot(tk.got[i])>>

\* Get operation was answered with an operation that is not done, after a failed
\* first attempt
C33_Witness ==
    /\ call.op = "get_operation"
    /\ pc = "done"
    /\ Len(got) = 2
    /\ NamesOperation(got[2])
    /\ got[2].body.json[1].done = <<FALSE>>
    /\ reply[1].status_code = 200
    /\ reply[1].content[1].done = FALSE

\* The steps of the client and the status each is answered with
FlowOps == <<"create_store", "upload_to_store", "list_documents", "delete_store">>
FlowStatuses == <<201, 202, 200, 204>>

\* The response to the step that is over but not yet followed by the next
Pending ==
    IF pc = "done" THEN <<reply[1]>>
    ELSE IF pc = "upload" /\ task # <<>> /\ task[1].pc = "done" THEN <<task[1].reply[1]>>
    ELSE <<>>

\* The documents upstream listed in answer t
Listed(t) ==
    IF t.body.json[1].documents = <<>> THEN <<>> ELSE t.body.json[1].documents[1]

FlowSucceeds ==
    /\ Len(flow) <= 4
    /\ \A i \in 1..Len(flow) :
          /\ flow[i].op = FlowOps[i]
          /\ flow[i].reply.status_code = FlowStatuses[i]
    /\ (Pending # <<>> /\ Len(flow) < 4) =>
          Pending[1].status_code = FlowStatuses[Len(flow) + 1]
    /\ Len(flow) >= 2 =>
          /\ Len(flow[2].sent) = 3
          /\ IsImport(flow[2].sent[3])
          /\ flow[2].sent[3].url =
                <<settings.api_base_url, "/v1beta/">> \o flow[1].reply.content[1].name
                    \o <<":importFile">>
          /\ flow[2].reply.content = <<Snapshot(flow[2].got)>>
    /\ Len(flow) >= 3 =>
          /\ flow[3].reply.content[1].documents = Listed(flow[3].got)
          /\ flow[3].sent[1].url =
                <<settings.api_base_url, "/v1beta/">> \o flow[1].reply.content[1].name
                    \o <<"/documents">>
    /\ Len(flow) = 4 =>
          /\ Len(flow[4].sent) = 1
          /\ flow[4].sent[1].method = "DELETE"
          /\ flow[4].sent[1].url =
                <<settings.api_base_url, "/v1beta/">> \o flow[1].reply.content[1].name
          /\ flow[4].sent[1].params = {<<"force", "true">>}

\* C34: while upstream accepts each request, create store, upload, list
\* documents and delete store with force=true are answered 201, 202, 200 and
\* 204, and the client gets to the end: the import request for the store created
\* was accepted, the listing is the documents upstream listed (none yet, pending
\* or active), and the delete carries force=true and succeeds whatever was
\* listed.
C34_FullFlowSucceeds == []FlowSucceeds /\ <>(Len(flow) = 4)

\* The store was deleted after the listing showed a pending document
C34_Witness ==
    /\ Len(flow) = 4
    /\ Len(flow[3].reply.content[1].documents) = 1
    /\ flow[3].reply.content[1].documents[1].state = <<"STATE_PENDING">>
    /\ flow[4].reply.status_code = 204

\* Upstream opened a session: a successful answer with a session URI
OpenedSession(t) ==
    /\ t.type = "response" /\ t.status_code \in 200..299
    /\ t.upload_url # <<>> /\ t.upload_url[1] # <<>>

\* C35: in every upload, each upload+finalize request comes right after a start
\* request that was answered with success and a session URI, and goes to that
\* URI; there are never more upload+finalize requests than start requests, nor
\* more start requests than max_attempts.
C35_FinalizeOnlyAfterItsStart ==
    \A id \in DOMAIN task :
        LET tk == task[id]
            starts == {i \in 1..Len(tk.sent) : IsStart(tk.sent[i])}
            finalizes == {i \in 1..Len(tk.sent) : IsFinalize(tk.sent[i])}
        IN /\ \A i \in finalizes :
                 /\ i - 1 \in starts
                 /\ OpenedSession(tk.got[i - 1])
                 /\ tk.sent[i].url = tk.got[i - 1].upload_url[1]
           /\ \A i \in starts :
                 (i <= Len(tk.got) /\ ~OpenedSession(tk.got[i])) => i + 1 \notin finalizes
           /\ Cardinality(finalizes) <= Cardinality(starts)
           /\ Cardinality(starts) <= settings.api_max_retries

\* Three attempts: the first two start requests failed, the third opened a
\* session and the bytes went to it
C35_Witness ==
    /\ Len(task) = 1
    /\ settings.api_max_retries = 3
    /\ Len(task[1].sent) >= 4
    /\ IsStart(task[1].sent[1]) /\ IsStart(task[1].sent[2]) /\ IsStart(task[1].sent[3])
    /\ IsFinalize(task[1].sent[4])
    /\ task[1].sent[4].url = SessionUri(1, 3)

\* The call is over: the route has answered (or, for a call made to the service
\* itself, the facade method has ended); every upload has been answered
Terminated ==
    IF pc = "upload" THEN \A id \in DOMAIN task : task[id].pc = "done"
    ELSE pc = "done" \/ (call.entry = "facade" /\ pc = "facade_done")
WithinRequestBounds ==
    /\ Len(sent) <= settings.api_max_retries
    /\ \A id \in DOMAIN task :
          LET tk == task[id]
              upload == {i \in 1..Len(tk.sent) : ~IsImport(tk.sent[i])}
          IN /\ Cardinality(upload) <= 2 * settings.api_max_retries
             /\ Len(tk.sent) - Cardinality(upload) <= settings.api_max_retries
             /\ Len(tk.sent) <= 3 * settings.api_max_retries

\* C36: when every HTTP call returns or fails, every operation ends, with a
\* result or an error, having sent at most max_attempts requests (a store,
\* document, import, operation, model or search call), at most 2 * max_attempts
\* for the resumable upload and at most 3 * max_attempts for upload to store.
C36_EveryOperationEndsWithinItsRequests ==
    /\ []WithinRequestBounds
    /\ <>Terminated
    /\ [](Terminated => (IF pc = "upload"
                           THEN \A id \in DOMAIN task : task[id].reply # <<>>
                         ELSE result # <<>> \/ reply # <<>>))

\* An upload ended after 2 * max_attempts upload requests
C36_Witness ==
    /\ Len(task) = 1
    /\ settings.api_max_retries = 2
    /\ task[1].pc = "done"
    /\ Len(task[1].sent) = 4
    /\ \A i \in 1..4 : ~IsImport(task[1].sent[i])

\* The exception is the service's error: it has a message and nothing else
ServiceError(o) ==
    /\ o.failed
    /\ o.exc[1].kind = "FileSearchAPIError"
    /\ o.exc[1].response = <<>>
Retried(o) == o.failed /\ o.exc[1].kind \in {"HTTPStatusError", "ReadTimeout"}
Mentions(msg, word) == \E i \in 1..Len(msg) : msg[i] = word

\* C37: whatever the retried call of _request, list_models or search_with_gemini
\* ended with (a status error or a time-out once the attempts are used up, any
\* other error at the attempt it occurred), the method raises FileSearchAPIError,
\* which carries a message only: the status code is in its text. list_models and
\* search_with_gemini raise nothing else, and neither does the upload unless the
\* import answer is not an operation.
C37_EveryFailureIsTheServiceError ==
    /\ (result # <<>> /\ final # <<>> /\ final[1].failed) =>
          /\ ServiceError(result[1])
          /\ \A i \in 1..(Len(calls) - 1) : Retried(calls[i])
          /\ Retried(final[1]) => Len(calls) = settings.api_max_retries
          /\ final[1].exc[1].kind = "HTTPStatusError" =>
                Mentions(result[1].exc[1].msg, ToString(got[Len(got)].status_code))
    /\ (result # <<>> /\ result[1].failed
            /\ call.op \in {"list_models", "search_with_gemini"}) => ServiceError(result[1])
    /\ \A id \in DOMAIN task :
          LET tk == task[id] IN
          (tk.result # <<>> /\ tk.result[1].failed) =>
              \/ ServiceError(tk.result[1])
              \/ /\ IsImport(tk.sent[Len(tk.sent)])
                 /\ tk.got[Len(tk.got)].type = "response"
                 /\ tk.got[Len(tk.got)].status_code = 200

\* Get store met 429 on each of three attempts and raised "API error: 429 - ..."
C37_Witness ==
    /\ call.op = "get_store"
    /\ result # <<>>
    /\ Len(calls) = 3
    /\ got[3].type = "response" /\ got[3].status_code = 429
    /\ ServiceError(result[1])
    /\ result[1].exc[1].msg = <<"API", "error:", "429", "-", "Resource", "exhausted">>

\* The path of an upload's temporary file, and the uploads that have written
\* theirs and not yet been answered
TempPath(tk) == IF tk.filename = <<>> THEN Filename("upload", "") ELSE tk.filename[1]
Written(tk) == tk.pc \notin {"route", "reading", "done"}

\* C38: a temporary file is on the disk only while an upload that wrote it is
\* being served: when the route has answered, with the operation, with a service
\* error or with any other error, its file is gone, and an upload rejected for
\* its extension or size never had one. Once every upload is answered the
\* directory is empty.
C38_TemporaryFileGoneWhenRouteFinishes ==
    /\ \A path \in DOMAIN disk :
          \E id \in DOMAIN task : TempPath(task[id]) = path /\ Written(task[id])
    /\ \A id \in DOMAIN task :
          (Written(task[id]) /\ \A other \in DOMAIN task :
                                   other # id => TempPath(task[other]) # TempPath(task[id])) =>
              /\ TempPath(task[id]) \in DOMAIN disk
              /\ disk[TempPath(task[id])] = task[id].content

\* An upload whose import answer was not an operation ended with an error that
\* is not the service's, and its file is gone
C38_Witness ==
    /\ Len(task) = 1
    /\ task[1].pc = "done"
    /\ Len(task[1].sent) = 3
    /\ task[1].result[1].failed
    /\ task[1].result[1].exc[1].kind = "ValidationError"
    /\ disk = <<>>

\* The first candidate gives no text: no part of it has a text that is not empty
\* (more than one text would give at least the space between them)
YieldsNoText(r) ==
    LET texts == TextsOf(FirstParts(r)) IN
    texts = <<>> \/ texts = << <<>> >>

====
